---- MODULE Spec2Model ----
(***************************************************************************)
(* Model of the Apple Podcasts transcription pipeline of                   *)
(* src/app/podcast_service.py: one get_podcast_transcript invocation, from *)
(* the episode URL to the transcript or the error the caller receives.     *)
(*                                                                         *)
(* Python strings are modelled as sequences of one-character strings, so   *)
(* that split, startswith, substring tests and the slug normalisation are  *)
(* computed the way the code computes them.                                *)
(***************************************************************************)
EXTENDS Integers, Sequences, FiniteSets, TLC

(***************************************************************************)
(* String helpers (Python str operations)                                  *)
(***************************************************************************)

\* s[k:] of Python, k counted from 0
DropFirst(s, k) == SubSeq(s, k + 1, Len(s))

\* s[:k] of Python
TakeFirst(s, k) == SubSeq(s, 1, k)

\* s.startswith(p)
StartsWith(s, p) == Len(p) <= Len(s) /\ SubSeq(s, 1, Len(p)) = p

\* needle in hay (substring test; the empty string is in every string)
Contains(hay, needle) ==
    \E i \in 0..(Len(hay) - Len(needle)) :
        SubSeq(hay, i + 1, i + Len(needle)) = needle

\* s.find(c) + 1 for a single character c; 0 when c does not occur
FirstIndex(s, c) ==
    IF \E i \in 1..Len(s) : s[i] = c
    THEN CHOOSE i \in 1..Len(s) : s[i] = c /\ \A j \in 1..(i - 1) : s[j] # c
    ELSE 0

\* s.split(c) for a single character c
RECURSIVE Split(_, _)
Split(s, c) ==
    LET k == FirstIndex(s, c)
    IN  IF k = 0 THEN <<s>>
        ELSE <<TakeFirst(s, k - 1)>> \o Split(DropFirst(s, k), c)

UpperChars == <<"A", "B", "E", "I", "U", "Z">>
LowerChars == <<"a", "b", "e", "i", "u", "z">>

\* c.lower() on the alphabet of the model
LowerChar(c) ==
    IF \E i \in 1..Len(UpperChars) : UpperChars[i] = c
    THEN LowerChars[CHOOSE i \in 1..Len(UpperChars) : UpperChars[i] = c]
    ELSE c

\* s.lower()
Lower(s) == [i \in 1..Len(s) |-> LowerChar(s[i])]

\* the character class [a-z0-9] of the slug regular expression
SlugChars ==
    {"a", "b", "c", "d", "e", "f", "g", "h", "i", "j", "k", "l", "m",
     "n", "o", "p", "q", "r", "s", "t", "u", "v", "w", "x", "y", "z",
     "0", "1", "2", "3", "4", "5", "6", "7", "8", "9"}

DigitChars == <<"0", "1", "2", "3", "4", "5", "6", "7", "8", "9">>

\* sep.join(parts)
RECURSIVE Join(_, _)
Join(parts, sep) ==
    IF Len(parts) = 0 THEN <<>>
    ELSE IF Len(parts) = 1 THEN parts[1]
    ELSE parts[1] \o sep \o Join(Tail(parts), sep)

(***************************************************************************)
(* URL parsing: urlparse(url).path, urlparse(url).query, parse_qs          *)
(***************************************************************************)

\* the part of s before the first occurrence of c (all of s when absent)
Before(s, c) ==
    LET k == FirstIndex(s, c) IN IF k = 0 THEN s ELSE TakeFirst(s, k - 1)

\* the part of s after the first occurrence of c (empty when absent)
After(s, c) ==
    LET k == FirstIndex(s, c) IN IF k = 0 THEN <<>> ELSE DropFirst(s, k)

\* the index from which the path, query or fragment starts after the netloc
NetlocEnd(s) ==
    IF \E i \in 1..Len(s) : s[i] \in {"/", "?", "#"}
    THEN (CHOOSE i \in 1..Len(s) :
            /\ s[i] \in {"/", "?", "#"}
            /\ \A j \in 1..(i - 1) : s[j] \notin {"/", "?", "#"}) - 1
    ELSE Len(s)

\* urlparse: what follows "scheme://netloc"
UrlAfterNetloc(u) ==
    LET rest == After(u, ":")
    IN  IF FirstIndex(u, ":") > 0 /\ StartsWith(rest, <<"/", "/">>)
        THEN DropFirst(DropFirst(rest, 2), NetlocEnd(DropFirst(rest, 2)))
        ELSE IF FirstIndex(u, ":") > 0 THEN rest ELSE u

\* urlparse(u).path
UrlPath(u) == Before(Before(UrlAfterNetloc(u), "#"), "?")

\* urlparse(u).query
UrlQuery(u) == After(Before(UrlAfterNetloc(u), "#"), "?")

\* parse_qs(query).get(name, [None])[0]; None is the empty sequence
\* (parse_qs drops pairs without "=" and pairs with a blank value)
RECURSIVE FirstParam(_, _)
FirstParam(pairs, name) ==
    IF Len(pairs) = 0 THEN <<>>
    ELSE LET p == pairs[1]
         IN  IF FirstIndex(p, "=") > 0 /\ Before(p, "=") = name
                /\ Len(After(p, "=")) > 0
             THEN After(p, "=")
             ELSE FirstParam(Tail(pairs), name)

QueryParam(query, name) == FirstParam(Split(query, "&"), name)

(***************************************************************************)
(* Python values: None and a missing XML element                           *)
(***************************************************************************)

\* Python None where a string is expected
None == <<"<None>">>

\* a child element that item.find(...) does not find
Absent == <<"<absent>">>

\* truth value of an Optional[str]: None and "" are false
Truthy(s) == s # None /\ s # <<>>

(***************************************************************************)
(* get_podcast_audio_url: identifiers taken from the URL                   *)
(***************************************************************************)

IdPrefix == <<"i", "d">>

\* the loop over path_parts: the first part that starts with "id", less its
\* first two characters; None when no part starts with "id"
RECURSIVE FirstIdPart(_)
FirstIdPart(parts) ==
    IF Len(parts) = 0 THEN None
    ELSE IF StartsWith(parts[1], IdPrefix) THEN DropFirst(parts[1], 2)
    ELSE FirstIdPart(Tail(parts))

\* the last path segment taken as the id, whatever it begins with
LastPartAsPodcastId(u) ==
    LET parts == Split(UrlPath(u), "/")
    IN  parts[Len(parts)]

\* podcast_id of get_podcast_audio_url
PodcastIdOf(u) == FirstIdPart(Split(UrlPath(u), "/"))

\* episode_id of get_podcast_audio_url
EpisodeIdOf(u) ==
    LET v == QueryParam(UrlQuery(u), <<"i">>)
    IN  IF v = <<>> THEN None ELSE v

(***************************************************************************)
(* parse_rss_for_episode                                                   *)
(***************************************************************************)

PodcastWord == <<"p", "o", "d", "c", "a", "s", "t">>

\* the part after the first "podcast" part that has a successor
RECURSIVE SlugAfterPodcast(_, _)
SlugAfterPodcast(parts, i) ==
    IF i > Len(parts) THEN None
    ELSE IF parts[i] = PodcastWord /\ i + 1 <= Len(parts) THEN parts[i + 1]
    ELSE SlugAfterPodcast(parts, i + 1)

\* episode_slug: computed on the whole lower-cased URL split at "/"
EpisodeSlugOf(u) == SlugAfterPodcast(Split(Lower(u), "/"), 1)

\* s without its leading run of characters outside [a-z0-9]
RECURSIVE DropNonSlugRun(_)
DropNonSlugRun(s) ==
    IF Len(s) = 0 \/ s[1] \in SlugChars THEN s ELSE DropNonSlugRun(Tail(s))

\* re.sub(r"[^a-z0-9]+", "-", s)
RECURSIVE CollapseNonSlug(_)
CollapseNonSlug(s) ==
    IF Len(s) = 0 THEN <<>>
    ELSE IF s[1] \in SlugChars THEN <<s[1]>> \o CollapseNonSlug(Tail(s))
    ELSE <<"-">> \o CollapseNonSlug(DropNonSlugRun(s))

\* title_slug
TitleSlug(title) == CollapseNonSlug(Lower(title))

UnknownEpisode ==
    <<"U", "n", "k", "n", "o", "w", "n", " ", "E", "p", "i", "s", "o", "d", "e">>

\* title of an item: the text of its title element, None for an empty
\* element, "Unknown Episode" when the element is missing
ItemTitle(item) == IF item.title = Absent THEN UnknownEpisode ELSE item.title

\* variant: the url attribute of the enclosure is not looked at
HasEnclosure(item) == item.enclosure # Absent

\* the item has an enclosure with a non-empty url attribute
HasAudio(item) ==
    item.enclosure # Absent /\ Truthy(item.enclosure)

\* guid is not None and episode_id and episode_id in (guid.text or "")
GuidMatches(item, episode_id) ==
    /\ item.guid # Absent
    /\ Truthy(episode_id)
    /\ Contains(IF item.guid = None THEN <<>> ELSE item.guid, episode_id)

\* episode_slug in title_slug or title_slug in episode_slug
SlugMatches(title, episode_slug) ==
    \/ Contains(TitleSlug(title), episode_slug)
    \/ Contains(episode_slug, TitleSlug(title))

Selected(title, audio_url) ==
    [kind |-> "ok", title |-> title, audio_url |-> audio_url, error |-> "none"]

Raised(e) == [kind |-> "error", title |-> None, audio_url |-> None, error |-> e]

NoBestMatch == [kind |-> "none", title |-> None, audio_url |-> None, error |-> "none"]

\* variant: every item with audio replaces the fallback kept so far
KeepLatestAsBestMatch(best_match, candidate) == candidate

\* if best_match is None: best_match = {...}
KeepAsBestMatch(best_match, candidate) ==
    IF best_match = NoBestMatch THEN candidate ELSE best_match

\* the loop over the items from item k on, with the fallback kept so far
RECURSIVE ScanItems(_, _, _, _, _)
ScanItems(items, k, episode_id, episode_slug, best_match) ==
    IF k > Len(items)
    THEN IF best_match # NoBestMatch THEN best_match
         ELSE Raised("NoMatchingEpisode")
    ELSE LET item == items[k]
             title == ItemTitle(item)
         IN  IF ~HasAudio(item)
             THEN ScanItems(items, k + 1, episode_id, episode_slug, best_match)
             ELSE IF GuidMatches(item, episode_id)
             THEN Selected(title, item.enclosure)
             ELSE IF Truthy(episode_slug) /\ title = None
             THEN Raised("AttributeError")
             ELSE IF Truthy(episode_slug) /\ SlugMatches(title, episode_slug)
             THEN Selected(title, item.enclosure)
             ELSE ScanItems(items, k + 1, episode_id, episode_slug,
                            KeepAsBestMatch(best_match,
                                            Selected(title, item.enclosure)))

\* variant: the check for a feed without items is missing
ParseRssNoEmptyCheck(feed, episode_id, original_url) ==
    IF feed.xml # "ok" THEN Raised("ParseError")
    ELSE IF ~feed.channel THEN Raised("InvalidFeed")
    ELSE ScanItems(feed.items, 1, episode_id, EpisodeSlugOf(original_url),
                   NoBestMatch)

\* variant: the guid and slug tests are left out, only the fallback is kept
ParseRssFallbackOnly(feed, episode_id, original_url) ==
    IF feed.xml # "ok" THEN Raised("ParseError")
    ELSE IF ~feed.channel THEN Raised("InvalidFeed")
    ELSE IF Len(feed.items) = 0 THEN Raised("EmptyFeed")
    ELSE ScanItems(feed.items, 1, None, <<>>, NoBestMatch)

\* parse_rss_for_episode(feed_content, episode_id, original_url)
parse_rss_for_episode(feed, episode_id, original_url) ==
    IF feed.xml # "ok" THEN Raised("ParseError")
    ELSE IF ~feed.channel THEN Raised("InvalidFeed")
    ELSE IF Len(feed.items) = 0 THEN Raised("EmptyFeed")
    ELSE ScanItems(feed.items, 1, episode_id, EpisodeSlugOf(original_url),
                   NoBestMatch)

(***************************************************************************)
(* Program constants                                                       *)
(***************************************************************************)

MAX_CHUNK_SIZE_MB == 24

CHUNK_DURATION_SECONDS == 600

\* 1024 * 1024 of file_size_mb
BytesPerMb == 1048576

(***************************************************************************)
(* Bounds and inputs of the model                                          *)
(***************************************************************************)

\* longest feed, in items
MaxItems == 2

\* longest response latency of a transcription call, in ticks
MaxLatency == 2

\* number of get_podcast_transcript invocations that run interleaved
MaxInvocations == 2

AppleHost ==
    <<"h", "t", "t", "p", "s", ":", "/", "/", "p", "o", "d", "c", "a", "s",
      "t", "s", ".", "a", "p", "p", "l", "e", ".", "c", "o", "m">>

SegUs == <<"/", "u", "s">>
SegCountryId == <<"/", "i", "d">>
SegPodcast == <<"/">> \o PodcastWord
SegEpA == <<"/", "e", "p", "-", "a">>
SegIdeas == <<"/", "i", "d", "e", "a", "s">>
SegId15 == <<"/", "i", "d", "1", "5">>
QueryI20 == <<"?", "i", "=", "2", "0">>

\* .../us/podcast/ep-a/id15?i=20
UrlPlain == AppleHost \o SegUs \o SegPodcast \o SegEpA \o SegId15 \o QueryI20

\* .../us/podcast/ep-a/id15
UrlNoEpisodeId == AppleHost \o SegUs \o SegPodcast \o SegEpA \o SegId15

\* .../us/podcast/ideas/id15?i=20
UrlIdeas == AppleHost \o SegUs \o SegPodcast \o SegIdeas \o SegId15 \o QueryI20

\* .../id/podcast/ep-a/id15?i=20 (the Indonesian storefront)
UrlCountryId ==
    AppleHost \o SegCountryId \o SegPodcast \o SegEpA \o SegId15 \o QueryI20

\* .../us/podcast/ep-a?i=20
UrlNoPodcastId == AppleHost \o SegUs \o SegPodcast \o SegEpA \o QueryI20

\* .../us/podcast/id15?i=20
UrlNoSlug == AppleHost \o SegUs \o SegPodcast \o SegId15 \o QueryI20

\* .../us/podcast/ideas?i=20
UrlIdeasNoPodcastId == AppleHost \o SegUs \o SegPodcast \o SegIdeas \o QueryI20

EpisodeUrls ==
    {UrlPlain, UrlNoEpisodeId, UrlIdeas, UrlCountryId, UrlNoPodcastId, UrlNoSlug,
     UrlIdeasNoPodcastId}

AudioMp3 == <<"h", ":", "/", "/", "c", "/", "a", ".", "m", "p", "3">>
AudioM4a == <<"h", ":", "/", "/", "c", "/", "b", ".", "m", "4", "a">>
AudioOgg == <<"h", ":", "/", "/", "c", "/", "c", ".", "o", "g", "g">>

\* h://c/r.m4a/d.mp3: an mp3 file behind a redirect prefix
AudioRedirect ==
    <<"h", ":", "/", "/", "c", "/", "r", ".", "m", "4", "a", "/", "d", ".",
      "m", "p", "3">>

\* guid contains the episode id 20, title matches no slug of the model
ItemGuid ==
    [title |-> <<"B", "e", "e">>, enclosure |-> AudioMp3,
     guid |-> <<"x", "2", "0">>]

\* title slug "ep-a", guid without the episode id
ItemSlug ==
    [title |-> <<"E", "p", " ", "A">>, enclosure |-> AudioM4a,
     guid |-> <<"9", "9">>]

\* matches nothing
ItemOther ==
    [title |-> <<"Z", "e", "d">>, enclosure |-> AudioOgg, guid |-> Absent]

\* guid and title match, but no enclosure
ItemNoAudio ==
    [title |-> <<"E", "p", " ", "A">>, enclosure |-> Absent,
     guid |-> <<"2", "0">>]

\* guid and title match, enclosure without url attribute
ItemNoAudioUrl ==
    [title |-> <<"E", "p", " ", "A">>, enclosure |-> None,
     guid |-> <<"2", "0">>]

\* no title element
ItemNoTitle == [title |-> Absent, enclosure |-> AudioMp3, guid |-> Absent]

\* empty title element
ItemEmptyTitle == [title |-> None, enclosure |-> AudioM4a, guid |-> None]

\* the enclosure url has an extension in an earlier path segment
ItemRedirect ==
    [title |-> <<"D", "e", "e">>, enclosure |-> AudioRedirect, guid |-> Absent]

ItemPool ==
    {ItemGuid, ItemSlug, ItemOther, ItemNoAudio, ItemNoAudioUrl, ItemNoTitle,
     ItemEmptyTitle, ItemRedirect}

ItemLists == UNION {[1..n -> ItemPool] : n \in 0..MaxItems}

\* what the feed address can answer with
FeedBodies ==
    {[xml |-> "malformed", channel |-> FALSE, items |-> <<>>],
     [xml |-> "ok", channel |-> FALSE, items |-> <<>>]}
    \cup {[xml |-> "ok", channel |-> TRUE, items |-> l] : l \in ItemLists}

NoFeed == [xml |-> "none", channel |-> FALSE, items |-> <<>>]

ShowName == <<"S", "h", "o", "w">>

UnknownPodcast ==
    <<"U", "n", "k", "n", "o", "w", "n", " ", "P", "o", "d", "c", "a", "s", "t">>

FeedAddress == <<"h", ":", "/", "/", "f">>

\* data["results"] of the directory lookup
LookupResults ==
    {<<>>,
     <<[feedUrl |-> FeedAddress, collectionName |-> ShowName]>>,
     <<[feedUrl |-> FeedAddress, collectionName |-> Absent]>>,
     <<[feedUrl |-> None, collectionName |-> ShowName]>>,
     <<[feedUrl |-> <<>>, collectionName |-> Absent]>>}

\* len(audio_content) of the downloads
AudioSizes ==
    {1, MAX_CHUNK_SIZE_MB * BytesPerMb - 1, MAX_CHUNK_SIZE_MB * BytesPerMb,
     MAX_CHUNK_SIZE_MB * BytesPerMb + 1}

\* what ffprobe reports, in seconds
Durations == {0, 599, 600, 1500, 3720}

Latencies == 1..MaxLatency

\* the text the transcription API returns for chunk_<i>.mp3
ChunkText(i) == <<"w", DigitChars[i + 1]>>

\* the text the transcription API returns for the whole asset
WholeText == <<"w", "h", "o", "l", "e">>

(***************************************************************************)
(* State of one get_podcast_transcript invocation                          *)
(***************************************************************************)

VARIABLES
    pc,            \* position of the coroutine
    url,           \* apple_podcast_url
    podcast_id,    \* podcast_id of get_podcast_audio_url
    episode_id,    \* episode_id of get_podcast_audio_url
    data,          \* data of get_podcast_audio_url: the lookup response
    podcast_name,  \* podcast_name of get_podcast_audio_url
    feed,          \* feed_content, parsed; NoFeed outside get_podcast_audio_url
    episode_info,  \* episode_info: title and audio_url
    size,          \* len(audio_content)
    file_ext,      \* file_ext of transcribe_podcast_audio
    temp_dir,      \* the TemporaryDirectory: "none", "live" or "removed"
    disk,          \* files in temp_dir: -1 is input.<ext>, i is chunk_<i>.mp3
    duration,      \* duration of split_audio_file
    num_chunks,    \* num_chunks of split_audio_file
    i,             \* loop variable of split_audio_file
    chunk_paths,   \* chunk_paths, each path given by its ordinal
    cuts,          \* range, ordinal and outcome of every ffmpeg run so far
    transcripts,   \* transcripts of transcribe_with_chunking
    ti,            \* chunks of chunk_paths already transcribed
    inflight,      \* ordinals whose transcription call has not returned
    sent,          \* transcription calls so far: ordinal (-1 for the whole
                   \* asset) and outcome ("pending", "ok" or "failed")
    lat,           \* latency of the latest chunk transcription call
    overtaken,     \* some chunk call answered faster than the one before it
    calls,         \* external calls made so far, in order
    result,        \* what the caller of get_podcast_transcript receives
    inv,           \* interleaved invocations: the locals of each coroutine
    dirs,          \* interleaved invocations: the temporary directories
    files,         \* interleaved invocations: the files in those directories
    tpc,           \* position of process_transcript_task
    content_url,   \* content_url of process_transcript_task
    content_type,  \* content_type of process_transcript_task
    url_was_in_title, \* url_was_in_title of process_transcript_task
    page,          \* the Notion page: what a reader of the page sees
    notion,        \* requests sent to Notion so far, in order
    network,       \* calls made by process_content so far, in order
    task_result,   \* result of process_transcript_task
    exc,           \* str(e) of the exception caught, NoException without one
    batches,       \* requests _append_transcript_blocks has sent so far
    cpc,           \* position of main in transcribe.py
    args,          \* args of main: keep_audio and format
    env,           \* whether OPENAI_API_KEY is set
    audio_file,    \* whether the downloaded audio file exists
    output_file,   \* whether the transcription file was written
    raised,        \* the call of main that raised, "none" without one
    exit_code      \* exit status of the script, -1 while it runs

\* the state of the invocation that is followed step by step
soloVars ==
    <<pc, url, podcast_id, episode_id, data, podcast_name, feed, episode_info,
      size, file_ext, temp_dir, disk, duration, num_chunks, i, chunk_paths,
      cuts, transcripts, ti, inflight, sent, lat, overtaken, calls, result>>

\* the state of the invocations that are followed from await to await
pairVars == <<inv, dirs, files>>

\* the state of a process_transcript_task run
taskVars ==
    <<tpc, content_url, content_type, url_was_in_title, page, notion, network,
      task_result, exc, batches>>

\* the state of a run of transcribe.py
cliVars == <<cpc, args, env, audio_file, output_file, raised, exit_code>>

vars == <<soloVars, pairVars, taskVars, cliVars>>

locatorVars ==
    <<podcast_id, episode_id, data, podcast_name, feed, episode_info>>

fetchVars == <<size, file_ext>>

splitVars == <<duration, num_chunks, i, chunk_paths, cuts>>

chunkVars == <<transcripts, ti, inflight, sent, lat, overtaken>>

Pending ==
    [status |-> "pending", error |-> "none", title |-> None,
     transcript |-> None, podcast_name |-> None]

\* variant: the exception is replaced by one that does not tell its cause
FailureWithoutCause(e) ==
    [status |-> "error", error |-> "Exception", title |-> None,
     transcript |-> None, podcast_name |-> None]

\* the exception the caller receives
Failure(e) ==
    [status |-> "error", error |-> e, title |-> None, transcript |-> None,
     podcast_name |-> None]

\* the dict get_podcast_transcript returns
TranscriptResult(info, transcript) ==
    [status |-> "ok", error |-> "none", title |-> info.title,
     transcript |-> transcript, podcast_name |-> info.podcast_name]

\* data before the directory lookup has answered
NoData == [fetched |-> FALSE, results |-> <<>>]

\* the invocations that run interleaved on the event loop
Invocations == 1..MaxInvocations

\* no temporary directory
NoDir == 0

\* a collaborator that has not been asked yet, and one that has failed
NoAnswer == -1
ErrorAnswer == -2

\* no audio read from a file
NoPayload == [content |-> 0, ordinal |-> -1]

\* what the collaborators have answered to one invocation so far
NoResponses ==
    [lookup |-> "none", feed |-> "none", size |-> NoAnswer,
     duration |-> NoAnswer, cuts |-> <<>>, api |-> <<>>]

\* the locals of an invocation that has not yet reached its first await
IdleInvocation ==
    [pc |-> "lookup", resp |-> NoResponses, temp_dir |-> NoDir,
     chunk_paths |-> <<>>, ti |-> 0, transcripts |-> <<>>,
     payload |-> NoPayload, result |-> Pending]

NoEpisode == [title |-> None, audio_url |-> None, podcast_name |-> None]

\* content_type = None: the webhook carried no content type
NoHint == "<None>"

\* str(e): the text of an exception, given by what raised it and its length
ErrorText(kind, length) == [kind |-> kind, len |-> length]

NoException == ErrorText("none", 0)

\* the page before the task touches it
NewPage ==
    [status |-> "New", error_log |-> NoException, title |-> FALSE,
     url |-> FALSE, blocks |-> 0]

\* result before process_content returns; transcript is len(chunks) of
\* _split_text(transcript), title is whether result.get("title") is truthy
NoResult == [transcript |-> 0, title |-> FALSE, source_type |-> "none"]

\* args before parse_args
NoArgs == [keep_audio |-> FALSE, format |-> "none"]

\* exit_code while the script runs
Running == -1

Init ==
    /\ pc = "start"
    /\ url \in EpisodeUrls
    /\ podcast_id = None
    /\ episode_id = None
    /\ data = NoData
    /\ podcast_name = None
    /\ feed = NoFeed
    /\ episode_info = NoEpisode
    /\ size = 0
    /\ file_ext = "none"
    /\ temp_dir = "none"
    /\ disk = {}
    /\ duration = 0
    /\ num_chunks = 0
    /\ i = 0
    /\ chunk_paths = <<>>
    /\ cuts = <<>>
    /\ transcripts = <<>>
    /\ ti = 0
    /\ inflight = {}
    /\ sent = <<>>
    /\ lat = 0
    /\ overtaken = FALSE
    /\ calls = <<>>
    /\ result = Pending
    /\ inv = [p \in Invocations |-> IdleInvocation]
    /\ dirs = {}
    /\ files = {}
    /\ tpc = "idle"
    /\ content_url = <<>>
    /\ content_type = NoHint
    /\ url_was_in_title = FALSE
    /\ page = NewPage
    /\ notion = <<>>
    /\ network = <<>>
    /\ task_result = NoResult
    /\ exc = NoException
    /\ batches = 0
    /\ cpc = "idle"
    /\ args = NoArgs
    /\ env = FALSE
    /\ audio_file = FALSE
    /\ output_file = FALSE
    /\ raised = "none"
    /\ exit_code = Running

\* an exception leaves get_podcast_transcript
Raise(e) ==
    /\ pc' = "failed"
    /\ result' = Failure(e)

\* variant: the directory is not removed when an exception passes
RaiseLeavingTempDir(e) ==
    /\ Raise(e)
    /\ UNCHANGED <<temp_dir, disk>>

\* an exception leaves the with block of transcribe_with_chunking
RaiseInTempDir(e) ==
    /\ Raise(e)
    /\ temp_dir' = "removed"
    /\ disk' = {}

(***************************************************************************)
(* get_podcast_audio_url                                                   *)
(***************************************************************************)

\* lines 51-66: the identifiers are taken from the URL
ParseUrl ==
    /\ pc = "start"
    /\ podcast_id' = PodcastIdOf(url)
    /\ IF ~Truthy(PodcastIdOf(url))
       THEN /\ Raise("InvalidUrl")
            /\ UNCHANGED episode_id
       ELSE /\ episode_id' = EpisodeIdOf(url)
            /\ pc' = "lookup"
            /\ UNCHANGED result
    /\ UNCHANGED <<pairVars, taskVars, cliVars, url, data, podcast_name, feed, episode_info, fetchVars,
                   temp_dir, disk, splitVars, chunkVars, calls>>

\* variant: the feed address of the first result is not looked at
RejectionWithoutFeedCheck(results) ==
    IF Len(results) = 0 THEN "PodcastNotFound" ELSE "none"

\* lines 76-84: the error raised for data["results"], "none" when they pass
Rejection(results) ==
    IF Len(results) = 0 THEN "PodcastNotFound"
    ELSE IF ~Truthy(results[1].feedUrl) THEN "NoFeedUrl"
    ELSE "none"

\* lines 69-84: the directory lookup for podcast_id
DirectoryLookup ==
    /\ pc = "lookup"
    /\ calls' = Append(calls, "lookup")
    /\ \/ /\ Raise("LookupError")
          /\ UNCHANGED <<data, podcast_name>>
       \/ \E results \in LookupResults :
            /\ data' = [fetched |-> TRUE, results |-> results]
            /\ IF Len(results) = 0
               THEN /\ Raise("PodcastNotFound")
                    /\ UNCHANGED podcast_name
               ELSE /\ podcast_name' =
                           IF results[1].collectionName = Absent
                           THEN UnknownPodcast
                           ELSE results[1].collectionName
                    /\ IF Rejection(results) # "none"
                       THEN Raise(Rejection(results))
                       ELSE pc' = "fetch_feed" /\ UNCHANGED result
    /\ UNCHANGED <<pairVars, taskVars, cliVars, url, podcast_id, episode_id, feed, episode_info, fetchVars,
                   temp_dir, disk, splitVars, chunkVars>>

\* lines 87-90: the feed is fetched
FetchFeed ==
    /\ pc = "fetch_feed"
    /\ calls' = Append(calls, "feed")
    /\ \/ /\ Raise("FeedError")
          /\ UNCHANGED feed
       \/ \E body \in FeedBodies :
            /\ feed' = body
            /\ pc' = "parse_feed"
            /\ UNCHANGED result
    /\ UNCHANGED <<pairVars, taskVars, cliVars, url, podcast_id, episode_id, data, podcast_name,
                   episode_info, fetchVars, temp_dir, disk, splitVars,
                   chunkVars>>

\* variant: the name is taken from the feed item that was selected
WithNameFromFeed(found, name) ==
    [title |-> found.title, audio_url |-> found.audio_url,
     podcast_name |-> found.title]

\* line 94: episode_info["podcast_name"] = podcast_name
WithPodcastName(found, name) ==
    [title |-> found.title, audio_url |-> found.audio_url,
     podcast_name |-> name]

\* lines 93-96: the episode is selected and the podcast name added
SelectEpisode ==
    /\ pc = "parse_feed"
    /\ LET found == parse_rss_for_episode(feed, episode_id, url)
       IN  IF found.kind = "error"
           THEN /\ Raise(found.error)
                /\ UNCHANGED episode_info
           ELSE /\ episode_info' = WithPodcastName(found, podcast_name)
                /\ pc' = "download"
                /\ UNCHANGED result
    /\ UNCHANGED <<pairVars, taskVars, cliVars, url, podcast_id, episode_id, data, podcast_name, feed,
                   fetchVars, temp_dir, disk, splitVars, chunkVars, calls>>

(***************************************************************************)
(* transcribe_podcast_audio                                                *)
(***************************************************************************)

\* lines 313-319: the extension is looked for anywhere in the URL
FileExtOf(audio_url) ==
    IF Contains(audio_url, <<".", "m", "4", "a">>) THEN "m4a"
    ELSE IF Contains(audio_url, <<".", "w", "a", "v">>) THEN "wav"
    ELSE IF Contains(audio_url, <<".", "o", "g", "g">>) THEN "ogg"
    ELSE "mp3"

\* variant: the ceiling is inclusive
AtLeastCeiling(n) == n >= MAX_CHUNK_SIZE_MB * BytesPerMb

\* line 321: file_size_mb > MAX_CHUNK_SIZE_MB, with file_size_mb the byte
\* count divided by 1024 * 1024 (exact in floating point at these sizes)
ExceedsCeiling(n) == n > MAX_CHUNK_SIZE_MB * BytesPerMb

\* lines 303-324: the audio is downloaded and the path chosen; the locals of
\* get_podcast_audio_url are gone by now
DownloadAudio ==
    /\ pc = "download"
    /\ calls' = Append(calls, "download")
    /\ feed' = NoFeed
    /\ \/ /\ Raise("DownloadError")
          /\ UNCHANGED fetchVars
       \/ \E n \in AudioSizes :
            /\ size' = n
            /\ file_ext' = FileExtOf(episode_info.audio_url)
            /\ pc' = IF ExceedsCeiling(n) THEN "save_input" ELSE "transcribe"
            /\ UNCHANGED result
    /\ UNCHANGED <<pairVars, taskVars, cliVars, url, podcast_id, episode_id, data, podcast_name,
                   episode_info, temp_dir, disk, splitVars, chunkVars>>

\* lines 327-335 and 354-358: one call for the whole asset
TranscribeWhole ==
    /\ pc = "transcribe"
    /\ calls' = Append(calls, "transcribe")
    /\ \/ /\ sent' = Append(sent, [ordinal |-> -1, outcome |-> "failed"])
          /\ Raise("TranscriptionError")
       \/ /\ sent' = Append(sent, [ordinal |-> -1, outcome |-> "ok"])
          /\ pc' = "done"
          /\ result' = TranscriptResult(episode_info, WholeText)
    /\ UNCHANGED <<pairVars, taskVars, cliVars, url, locatorVars, fetchVars, temp_dir, disk, splitVars,
                   transcripts, ti, inflight, lat, overtaken>>

(***************************************************************************)
(* transcribe_with_chunking and split_audio_file                           *)
(***************************************************************************)

\* lines 258-262: the temporary directory is made and the audio saved in it
SaveInput ==
    /\ pc = "save_input"
    /\ temp_dir' = "live"
    /\ disk' = {-1}
    /\ pc' = "probe"
    /\ UNCHANGED <<pairVars, taskVars, cliVars, url, locatorVars, fetchVars, splitVars, chunkVars, calls,
                   result>>

\* variant: the chunk for the remainder is forgotten
NumChunksNoRemainder(d, chunk_duration) == d \div chunk_duration

\* line 197: num_chunks
NumChunks(d, chunk_duration) == (d \div chunk_duration) + 1

\* variant: the first range is skipped
StartTimeFromOne(k, chunk_duration) == (k + 1) * chunk_duration

\* line 202: start_time
StartTime(k, chunk_duration) == k * chunk_duration

\* line 212: the length ffmpeg is asked to cut, "-t", str(chunk_duration)
CutLength(chunk_duration) == chunk_duration

\* variant: the output files are numbered from 1
ChunkOrdinalOneBased(k) == k + 1

\* line 203: the ordinal in the name of the output file of iteration k
ChunkOrdinal(k) == k

\* lines 196-197: ffprobe reports the duration, or nothing float() can read
ProbeDuration ==
    /\ pc = "probe"
    /\ calls' = Append(calls, "probe")
    /\ \/ /\ RaiseInTempDir("ProbeError")
          /\ UNCHANGED splitVars
       \/ \E d \in Durations :
            /\ duration' = d
            /\ num_chunks' = NumChunks(d, CHUNK_DURATION_SECONDS)
            /\ pc' = "cut"
            /\ UNCHANGED <<i, chunk_paths, cuts, temp_dir, disk, result>>
    /\ UNCHANGED <<pairVars, taskVars, cliVars, url, locatorVars, fetchVars, chunkVars>>

\* what one ffmpeg run can leave behind: a non-zero exit status, no output
\* file or an empty one, an output file with content
CutOutcomes == {"failed", "empty", "written"}

\* variant: the exit status of ffmpeg is not checked
CutFailedDropped ==
    /\ i' = i + 1
    /\ UNCHANGED <<pc, result, temp_dir, disk, chunk_paths>>

\* line 220: check=True turns a non-zero exit status into an exception that
\* leaves split_audio_file, the with block and the caller
CutFailed ==
    /\ RaiseInTempDir("TranscodeError")
    /\ UNCHANGED <<i, chunk_paths>>

\* variant: the output file is added without a look at it
AddedUnseen(outcome) == TRUE

\* line 224: os.path.exists(output_path) and os.path.getsize(output_path) > 0
Materialized(outcome) == outcome = "written"

\* lines 201-225: one iteration of the loop of split_audio_file
CutChunk ==
    /\ pc = "cut"
    /\ i < num_chunks
    /\ calls' = Append(calls, "cut")
    /\ \E outcome \in CutOutcomes :
         /\ cuts' = Append(cuts,
                [start |-> StartTime(i, CHUNK_DURATION_SECONDS),
                 length |-> CutLength(CHUNK_DURATION_SECONDS),
                 ordinal |-> ChunkOrdinal(i), outcome |-> outcome])
         /\ IF outcome = "failed"
            THEN CutFailed
            ELSE /\ i' = i + 1
                 /\ IF Materialized(outcome)
                    THEN /\ disk' = disk \cup {ChunkOrdinal(i)}
                         /\ chunk_paths' = Append(chunk_paths, ChunkOrdinal(i))
                    ELSE UNCHANGED <<disk, chunk_paths>>
                 /\ UNCHANGED <<pc, temp_dir, result>>
    /\ UNCHANGED <<pairVars, taskVars, cliVars, url, locatorVars, fetchVars, duration, num_chunks,
                   chunkVars>>

\* lines 227 and 268-272: split_audio_file returns chunk_paths
SplitReturn ==
    /\ pc = "cut"
    /\ i = num_chunks
    /\ pc' = "transcribe_chunks"
    /\ UNCHANGED <<pairVars, taskVars, cliVars, url, locatorVars, fetchVars, temp_dir, disk, splitVars,
                   chunkVars, calls, result>>

\* variant: the chunks are taken from the end of the list
NextChunkFromEnd(paths, k) == paths[Len(paths) - k]

\* line 273: the chunk of iteration k of the transcription loop (k from 0)
NextChunk(paths, k) == paths[k + 1]

\* variant: the new text is put in front
PrependTranscript(ts, t) == <<t>> \o ts

\* variant: the new text replaces the list
KeepLastTranscript(ts, t) == <<t>>

\* line 278: transcripts.append(transcript)
AppendTranscript(ts, t) == Append(ts, t)

\* line 281: " ".join(transcripts)
CombineTranscripts(ts) == Join(ts, <<" ">>)

\* lines 273-277 and 232-239: the call for the next chunk is issued
TranscribeChunkCall ==
    /\ pc = "transcribe_chunks"
    /\ ti < Len(chunk_paths)
    /\ NextChunk(chunk_paths, ti) \in disk
    /\ calls' = Append(calls, "transcribe")
    /\ sent' = Append(sent, [ordinal |-> NextChunk(chunk_paths, ti),
                             outcome |-> "pending"])
    /\ inflight' = inflight \cup {NextChunk(chunk_paths, ti)}
    /\ \E l \in Latencies :
         /\ lat' = l
         /\ overtaken' = (overtaken \/ (ti > 0 /\ l < lat))
    /\ pc' = "await_chunk"
    /\ UNCHANGED <<pairVars, taskVars, cliVars, url, locatorVars, fetchVars, temp_dir, disk, splitVars,
                   transcripts, ti, result>>

\* variant: the exception of a chunk call is swallowed and the loop goes on
ChunkCallSkipped ==
    /\ ti' = ti + 1
    /\ pc' = "transcribe_chunks"
    /\ UNCHANGED <<transcripts, temp_dir, disk, result>>

\* variant: after an exception the call for the same chunk is issued again
ChunkCallRetried ==
    /\ pc' = "transcribe_chunks"
    /\ UNCHANGED <<transcripts, ti, temp_dir, disk, result>>

\* a chunk call raises: the exception leaves the with block and the caller
ChunkCallFailed ==
    /\ RaiseInTempDir("TranscriptionError")
    /\ UNCHANGED <<transcripts, ti>>

\* lines 277-278: the call returns, its text is appended
TranscribeChunkReturn ==
    /\ pc = "await_chunk"
    /\ inflight' = inflight \ {NextChunk(chunk_paths, ti)}
    /\ \/ /\ sent' = [sent EXCEPT ![Len(sent)].outcome = "failed"]
          /\ ChunkCallFailed
       \/ /\ sent' = [sent EXCEPT ![Len(sent)].outcome = "ok"]
          /\ transcripts' =
                AppendTranscript(transcripts,
                                 ChunkText(NextChunk(chunk_paths, ti)))
          /\ ti' = ti + 1
          /\ pc' = "transcribe_chunks"
          /\ UNCHANGED <<temp_dir, disk, result>>
    /\ UNCHANGED <<pairVars, taskVars, cliVars, url, locatorVars, fetchVars, splitVars, lat, overtaken,
                   calls>>

\* lines 281-284 and 354-358: the texts are joined, the with block is left
\* and get_podcast_transcript returns
ChunkingReturn ==
    /\ pc = "transcribe_chunks"
    /\ ti = Len(chunk_paths)
    /\ result' = TranscriptResult(episode_info, CombineTranscripts(transcripts))
    /\ temp_dir' = "removed"
    /\ disk' = {}
    /\ pc' = "done"
    /\ UNCHANGED <<pairVars, taskVars, cliVars, url, locatorVars, fetchVars, splitVars, chunkVars, calls>>

Next ==
    \/ ParseUrl
    \/ DirectoryLookup
    \/ FetchFeed
    \/ SelectEpisode
    \/ DownloadAudio
    \/ TranscribeWhole
    \/ SaveInput
    \/ ProbeDuration
    \/ CutChunk
    \/ SplitReturn
    \/ TranscribeChunkCall
    \/ TranscribeChunkReturn
    \/ ChunkingReturn

Spec == Init /\ [][Next]_vars

(***************************************************************************)
(* Interleaved invocations                                                 *)
(*                                                                         *)
(* process_transcript_task runs get_podcast_transcript as a coroutine of   *)
(* the one event loop, so an invocation runs alone from one await to the   *)
(* next: the lookup, the feed fetch, the download and every transcription  *)
(* call. The blocking code between two awaits (the probe and the cuts      *)
(* among it) is one step. The directories of tempfile are the only thing   *)
(* the invocations have in common.                                         *)
(***************************************************************************)

\* the names tempfile can give to a directory
DirNames == 1..MaxInvocations

\* variant: the name is chosen without a look at the directories that exist
AnyDirName(existing) == DirNames

\* line 258: TemporaryDirectory() makes a directory that did not exist
MkDtemp(existing) == DirNames \ existing

\* a file is written: name -1 is input.<ext>, name i is chunk_<i>.mp3, and
\* the content is the invocation whose audio the file holds
WriteFile(fs, d, n, c) ==
    {f \in fs : f.dir # d \/ f.name # n}
    \cup {[dir |-> d, name |-> n, content |-> c]}

\* the content of a file, 0 when there is no such file
ReadFile(fs, d, n) ==
    LET hits == {f \in fs : f.dir = d /\ f.name = n}
    IN  IF hits = {} THEN 0 ELSE (CHOOSE f \in hits : TRUE).content

\* the with block is left: the directory goes with all its files
RemoveDir(fs, d) == {f \in fs : f.dir # d}

\* what get_podcast_audio_url returns to invocation p
EpisodeOf(p) ==
    [title |-> <<"E", DigitChars[p + 1]>>, audio_url |-> AudioMp3,
     podcast_name |-> ShowName]

\* the text the transcription API returns for the audio it is sent
TextOf(payload) ==
    <<"w", DigitChars[payload.content + 1], DigitChars[payload.ordinal + 1]>>

\* the text the transcription API returns for the whole asset of p
WholeTextOf(p) == <<"w", DigitChars[p + 1]>>

\* len(audio_content) of the downloads
PairSizes == {MAX_CHUNK_SIZE_MB * BytesPerMb, MAX_CHUNK_SIZE_MB * BytesPerMb + 1}

\* what ffprobe reports, in seconds
PairDurations == {0, 600}

\* the outcomes of the ffmpeg runs of one split_audio_file of n chunks: all
\* n runs exit with status 0, or a run fails and no later run is made
CutRuns(n) ==
    {o \in UNION {[1..m -> CutOutcomes] : m \in 1..n} :
        /\ \A k \in 1..(Len(o) - 1) : o[k] # "failed"
        /\ Len(o) < n => o[Len(o)] = "failed"}

\* lines 201-225: the files after the runs from run k on; each run reads the
\* input and leaves a chunk when its outcome is "written"
RECURSIVE CutAll(_, _, _, _)
CutAll(fs, d, o, k) ==
    IF k > Len(o) THEN fs
    ELSE CutAll(IF o[k] = "written"
                THEN WriteFile(fs, d, ChunkOrdinal(k - 1), ReadFile(fs, d, -1))
                ELSE fs,
                d, o, k + 1)

\* lines 223-227: chunk_paths after the runs from run k on
RECURSIVE PathsOf(_, _)
PathsOf(o, k) ==
    IF k > Len(o) THEN <<>>
    ELSE (IF o[k] = "written" THEN <<ChunkOrdinal(k - 1)>> ELSE <<>>)
         \o PathsOf(o, k + 1)

\* the invocation has returned or raised: its locals are gone
Ended(l, r, res) ==
    [l EXCEPT !.pc = IF res.status = "ok" THEN "done" ELSE "failed",
              !.resp = r, !.result = res, !.temp_dir = NoDir,
              !.payload = NoPayload]

\* lines 69-84: the directory lookup of invocation p answers
AwaitLookup(p) ==
    /\ inv[p].pc = "lookup"
    /\ \E a \in {"error", "ok"} :
         LET r == [inv[p].resp EXCEPT !.lookup = a]
         IN  inv' = [inv EXCEPT ![p] =
                        IF a = "error" THEN Ended(@, r, Failure("LookupError"))
                        ELSE [@ EXCEPT !.pc = "fetch_feed", !.resp = r]]
    /\ UNCHANGED <<soloVars, taskVars, cliVars, dirs, files>>

\* lines 87-96: the feed of invocation p arrives and the episode is selected
AwaitFeed(p) ==
    /\ inv[p].pc = "fetch_feed"
    /\ \E a \in {"error", "ok"} :
         LET r == [inv[p].resp EXCEPT !.feed = a]
         IN  inv' = [inv EXCEPT ![p] =
                        IF a = "error" THEN Ended(@, r, Failure("FeedError"))
                        ELSE [@ EXCEPT !.pc = "download", !.resp = r]]
    /\ UNCHANGED <<soloVars, taskVars, cliVars, dirs, files>>

\* lines 258-276: the asset of p is saved to a new directory, probed and cut,
\* and the call for the first chunk is issued; all of it without an await
EnterChunking(p, r, d) ==
    \E a \in {ErrorAnswer} \cup PairDurations :
       LET saved == WriteFile(files, d, -1, p)
       IN  IF a = ErrorAnswer
           THEN /\ inv' = [inv EXCEPT ![p] =
                              Ended(@, [r EXCEPT !.duration = a],
                                    Failure("ProbeError"))]
                /\ dirs' = dirs \ {d}
                /\ files' = RemoveDir(saved, d)
           ELSE \E o \in CutRuns(NumChunks(a, CHUNK_DURATION_SECONDS)) :
                  LET rr == [r EXCEPT !.duration = a, !.cuts = o]
                      cut == CutAll(saved, d, o, 1)
                      paths == PathsOf(o, 1)
                  IN  IF o[Len(o)] = "failed"
                      THEN /\ inv' = [inv EXCEPT ![p] =
                                  Ended(@, rr, Failure("TranscodeError"))]
                           /\ dirs' = dirs \ {d}
                           /\ files' = RemoveDir(cut, d)
                      ELSE IF paths = <<>>
                      THEN /\ inv' = [inv EXCEPT ![p] =
                                  Ended(@, rr,
                                        TranscriptResult(EpisodeOf(p),
                                            CombineTranscripts(<<>>)))]
                           /\ dirs' = dirs \ {d}
                           /\ files' = RemoveDir(cut, d)
                      ELSE /\ inv' = [inv EXCEPT ![p] =
                                  [@ EXCEPT
                                     !.pc = "await_chunk",
                                     !.resp = rr,
                                     !.temp_dir = d,
                                     !.chunk_paths = paths,
                                     !.payload =
                                        [content |->
                                            ReadFile(cut, d, NextChunk(paths, 0)),
                                         ordinal |-> NextChunk(paths, 0)]]]
                           /\ dirs' = dirs \cup {d}
                           /\ files' = cut

\* lines 303-335: the download of invocation p answers; a small asset is sent
\* whole, a large one goes to transcribe_with_chunking
AwaitDownload(p) ==
    /\ inv[p].pc = "download"
    /\ \E n \in {ErrorAnswer} \cup PairSizes :
         LET r == [inv[p].resp EXCEPT !.size = n]
         IN  IF n = ErrorAnswer
             THEN /\ inv' = [inv EXCEPT ![p] =
                                Ended(@, r, Failure("DownloadError"))]
                  /\ UNCHANGED <<dirs, files>>
             ELSE IF ~ExceedsCeiling(n)
             THEN /\ inv' = [inv EXCEPT ![p] =
                                [@ EXCEPT !.pc = "await_whole", !.resp = r]]
                  /\ UNCHANGED <<dirs, files>>
             ELSE \E d \in MkDtemp(dirs) : EnterChunking(p, r, d)
    /\ UNCHANGED <<soloVars, taskVars, cliVars>>

\* lines 329-335: the call for the whole asset of p returns or raises
AwaitWhole(p) ==
    /\ inv[p].pc = "await_whole"
    /\ \E a \in {"failed", "ok"} :
         LET r == [inv[p].resp EXCEPT !.api = Append(@, a)]
         IN  inv' = [inv EXCEPT ![p] =
                        IF a = "failed"
                        THEN Ended(@, r, Failure("TranscriptionError"))
                        ELSE Ended(@, r, TranscriptResult(EpisodeOf(p),
                                                          WholeTextOf(p)))]
    /\ UNCHANGED <<soloVars, taskVars, cliVars, dirs, files>>

\* lines 273-284 and 232-239: a chunk call of p returns or raises; after a
\* return the text is appended and either the next chunk is read and its
\* call issued, or the texts are joined and the directory removed
AwaitChunk(p) ==
    /\ inv[p].pc = "await_chunk"
    /\ \E a \in {"failed", "ok"} :
         LET l == inv[p]
             r == [l.resp EXCEPT !.api = Append(@, a)]
             ts == AppendTranscript(l.transcripts, TextOf(l.payload))
             k == l.ti + 1
         IN  IF a = "failed"
             THEN /\ inv' = [inv EXCEPT ![p] =
                                Ended(@, r, Failure("TranscriptionError"))]
                  /\ dirs' = dirs \ {l.temp_dir}
                  /\ files' = RemoveDir(files, l.temp_dir)
             ELSE IF k = Len(l.chunk_paths)
             THEN /\ inv' = [inv EXCEPT ![p] =
                                Ended(@, r, TranscriptResult(EpisodeOf(p),
                                                CombineTranscripts(ts)))]
                  /\ dirs' = dirs \ {l.temp_dir}
                  /\ files' = RemoveDir(files, l.temp_dir)
             ELSE IF ReadFile(files, l.temp_dir, NextChunk(l.chunk_paths, k)) = 0
             THEN /\ inv' = [inv EXCEPT ![p] =
                                Ended(@, r, Failure("FileNotFoundError"))]
                  /\ dirs' = dirs \ {l.temp_dir}
                  /\ files' = RemoveDir(files, l.temp_dir)
             ELSE /\ inv' = [inv EXCEPT ![p] =
                                [@ EXCEPT
                                   !.resp = r,
                                   !.ti = k,
                                   !.transcripts = ts,
                                   !.payload =
                                      [content |->
                                          ReadFile(files, l.temp_dir,
                                                   NextChunk(l.chunk_paths, k)),
                                       ordinal |-> NextChunk(l.chunk_paths, k)]]]
                  /\ UNCHANGED <<dirs, files>>
    /\ UNCHANGED <<soloVars, taskVars, cliVars>>

LookupAnswers == \E p \in Invocations : AwaitLookup(p)

FeedAnswers == \E p \in Invocations : AwaitFeed(p)

DownloadAnswers == \E p \in Invocations : AwaitDownload(p)

WholeCallAnswers == \E p \in Invocations : AwaitWhole(p)

ChunkCallAnswers == \E p \in Invocations : AwaitChunk(p)

NextInterleaved ==
    \/ LookupAnswers
    \/ FeedAnswers
    \/ DownloadAnswers
    \/ WholeCallAnswers
    \/ ChunkCallAnswers

\* the invocations start together on URLs that yield a podcast id
InitInterleaved == Init /\ url = UrlPlain

SpecInterleaved == InitInterleaved /\ [][NextInterleaved]_vars

(***************************************************************************)
(* process_transcript_task: the background task of the webhook, and the    *)
(* requests it sends to Notion                                             *)
(***************************************************************************)

\* error_message[:2000] of update_page_status
ErrorLogLimit == 2000

\* blocks[i : i + 100] of _append_transcript_blocks
BlocksPerRequest == 100

\* the heading and the divider that precede the paragraphs
HeadingBlocks == 2

ContentTypes == {NoHint, "", "Unknown", "YouTube", "Podcast", "Article"}

YoutubeCom == <<"y", "o", "u", "t", "u", "b", "e", ".", "c", "o", "m">>
YoutuBe == <<"y", "o", "u", "t", "u", ".", "b", "e">>
PodcastsAppleCom == DropFirst(AppleHost, 8)

\* audio_extensions of detect_content_type and of is_audio_url
AudioExtensions ==
    {<<".", "m", "p", "3">>, <<".", "m", "4", "a">>, <<".", "w", "a", "v">>,
     <<".", "o", "g", "g">>, <<".", "a", "a", "c">>,
     <<".", "f", "l", "a", "c">>, <<".", "m", "p", "4">>,
     <<".", "m", "4", "b">>}

\* h://c/b.m4B: an audio file whose extension is not in lower case
FileUrlUpper == <<"h", ":", "/", "/", "c", "/", "b", ".", "m", "4", "B">>

\* h://c/id9/a.mp3: an audio file below a path segment that begins with id
FileUrlId ==
    <<"h", ":", "/", "/", "c", "/", "i", "d", "9", "/", "a", ".", "m", "p",
      "3">>

\* h://youtu.be/a.mp3
TubeUrl == <<"h", ":", "/", "/">> \o YoutuBe \o <<"/", "a", ".", "m", "p", "3">>

\* h://c/p
ArticleUrl == <<"h", ":", "/", "/", "c", "/", "p">>

TaskUrls == {UrlPlain, AudioMp3, FileUrlUpper, FileUrlId, TubeUrl, ArticleUrl}

is_youtube_url(u) == Contains(u, YoutubeCom) \/ Contains(u, YoutuBe)

is_apple_podcast_url(u) == Contains(u, PodcastsAppleCom)

is_audio_url(u) ==
    LET url_lower == Lower(u)
    IN  \E ext \in AudioExtensions : Contains(url_lower, ext)

detect_content_type(u) ==
    LET url_lower == Lower(u)
    IN  IF Contains(url_lower, YoutubeCom) \/ Contains(url_lower, YoutuBe)
        THEN "YouTube"
        ELSE IF Contains(url_lower, PodcastsAppleCom) THEN "Podcast"
        ELSE IF \E ext \in AudioExtensions : Contains(url_lower, ext)
             THEN "Podcast"
        ELSE "Article"

\* the branch process_content takes
RouteOf(u, hint) ==
    LET detected ==
            IF hint \in {NoHint, "", "Unknown"} THEN detect_content_type(u)
            ELSE hint
    IN  IF detected = "YouTube" \/ is_youtube_url(u) THEN "YouTube"
        ELSE IF \/ detected = "Podcast"
                \/ is_apple_podcast_url(u)
                \/ is_audio_url(u)
             THEN "Podcast"
        ELSE "Article"

\* the calls of get_podcast_transcript that leave the process, in order
PodcastCalls == <<"lookup", "feed", "download", "transcription">>

\* "Could not extract podcast ID from URL: {apple_podcast_url}"
NoPodcastIdText(u) == ErrorText("ValueError", 39 + Len(u))

\* texts of the other failures of process_content: an empty one, as of a
\* timeout, and one longer than the Error Log takes
ContentErrors == {ErrorText("content", 0), ErrorText("content", 2001)}

\* text of a failed request to Notion
NotionError == ErrorText("HTTPStatusError", 150)

\* len(chunks) of _append_transcript_blocks
TranscriptChunks == {1, 99}

\* the content of the Error Log property: nothing for an empty message
ErrorLogOf(error_message) ==
    IF error_message.len > 0
    THEN [error_message EXCEPT
            !.len = IF @ > ErrorLogLimit THEN ErrorLogLimit ELSE @]
    ELSE NoException

\* a request of update_page_status
StatusRequest(status, error_message, ok) ==
    [op |-> "status", status |-> status, error_message |-> error_message,
     error_log |-> ErrorLogOf(error_message), blocks |-> 0, ok |-> ok]

\* the first request of update_page_with_transcript
PropertiesRequest(ok) ==
    [op |-> "properties", status |-> "Completed",
     error_message |-> NoException, error_log |-> NoException, blocks |-> 0,
     ok |-> ok]

\* a request of _append_transcript_blocks
ChildrenRequest(n, ok) ==
    [op |-> "children", status |-> "", error_message |-> NoException,
     error_log |-> NoException, blocks |-> n, ok |-> ok]

\* the requests of update_url_field, taken together
UrlRequest(ok) ==
    [op |-> "url", status |-> "", error_message |-> NoException,
     error_log |-> NoException, blocks |-> 0, ok |-> ok]

\* len(blocks) of _append_transcript_blocks
BlocksOf(res) == HeadingBlocks + res.transcript

\* iterations of range(0, len(blocks), 100)
RequestsFor(blocks) == (blocks + BlocksPerRequest - 1) \div BlocksPerRequest

\* len(blocks[i : i + 100]) of the k-th request, k counted from 0
BatchSize(blocks, k) ==
    IF blocks - k * BlocksPerRequest > BlocksPerRequest THEN BlocksPerRequest
    ELSE blocks - k * BlocksPerRequest

\* except Exception as e
Except(e) ==
    /\ tpc' = "except"
    /\ exc' = e

\* background_tasks.add_task(process_transcript_task, ...)
AddTask ==
    /\ tpc = "idle"
    /\ tpc' = "start"
    /\ content_url' \in TaskUrls
    /\ content_type' \in ContentTypes
    /\ url_was_in_title' \in BOOLEAN
    /\ UNCHANGED <<page, notion, network, task_result, exc, batches>>
    /\ UNCHANGED <<soloVars, pairVars, cliVars>>

\* await notion_client.update_page_status(page_id, "Processing")
SetProcessing ==
    /\ tpc = "start"
    /\ \E ok \in BOOLEAN :
         /\ notion' = Append(notion, StatusRequest("Processing", NoException, ok))
         /\ IF ok
            THEN /\ page' = [page EXCEPT !.status = "Processing"]
                 /\ tpc' = "process"
                 /\ UNCHANGED exc
            ELSE /\ Except(NotionError)
                 /\ UNCHANGED page
    /\ UNCHANGED <<content_url, content_type, url_was_in_title, network,
                   task_result, batches>>
    /\ UNCHANGED <<soloVars, pairVars, cliVars>>

\* result = await process_content(content_url, content_type), returning
Returned(calls_made, res) ==
    /\ network' = calls_made
    /\ task_result' = res
    /\ tpc' = "update_page"
    /\ UNCHANGED exc

\* result = await process_content(content_url, content_type), raising
Raising(calls_made, e) ==
    /\ network' = calls_made
    /\ Except(e)
    /\ UNCHANGED task_result

\* what a branch of process_content that made the calls can end in
Outcomes(calls_made, source_type) ==
    \/ \E n \in TranscriptChunks, t \in BOOLEAN :
         Returned(calls_made,
                  [transcript |-> n, title |-> t, source_type |-> source_type])
    \/ \E e \in ContentErrors : Raising(calls_made, e)

\* get_podcast_transcript(url) as process_content sees it
PodcastBranch(u) ==
    IF ~Truthy(PodcastIdOf(u))
    THEN Raising(<<>>, NoPodcastIdText(u))
    ELSE \/ Outcomes(PodcastCalls, "Podcast")
         \/ \E n \in 1..Len(PodcastCalls), e \in ContentErrors :
              Raising(TakeFirst(PodcastCalls, n), e)

\* result = await process_content(content_url, content_type)
ProcessContent ==
    /\ tpc = "process"
    /\ LET route == RouteOf(content_url, content_type)
       IN  IF route = "YouTube" THEN Outcomes(<<"youtube">>, "YouTube")
           ELSE IF route = "Podcast" THEN PodcastBranch(content_url)
           ELSE Outcomes(<<"article">>, "Article")
    /\ UNCHANGED <<content_url, content_type, url_was_in_title, page, notion,
                   batches>>
    /\ UNCHANGED <<soloVars, pairVars, cliVars>>

\* update_page_with_transcript: the request that sets Status and Title
SetCompleted ==
    /\ tpc = "update_page"
    /\ \E ok \in BOOLEAN :
         /\ notion' = Append(notion, PropertiesRequest(ok))
         /\ IF ok
            THEN /\ page' = [page EXCEPT !.status = "Completed",
                                         !.title = @ \/ task_result.title]
                 /\ tpc' = "append"
                 /\ UNCHANGED exc
            ELSE /\ Except(NotionError)
                 /\ UNCHANGED page
    /\ UNCHANGED <<content_url, content_type, url_was_in_title, network,
                   task_result, batches>>
    /\ UNCHANGED <<soloVars, pairVars, cliVars>>

\* where the task goes once _append_transcript_blocks has returned
AfterAppend == IF url_was_in_title THEN "url_field" ELSE "returned"

\* _append_transcript_blocks: one request of the loop
AppendBlocks ==
    /\ tpc = "append"
    /\ LET blocks == BlocksOf(task_result)
           n == BatchSize(blocks, batches)
       IN  \E ok \in BOOLEAN :
             /\ notion' = Append(notion, ChildrenRequest(n, ok))
             /\ IF ok
                THEN /\ page' = [page EXCEPT !.blocks = @ + n]
                     /\ batches' = batches + 1
                     /\ tpc' = IF batches + 1 = RequestsFor(blocks)
                               THEN AfterAppend ELSE "append"
                     /\ UNCHANGED exc
                ELSE /\ Except(NotionError)
                     /\ UNCHANGED <<page, batches>>
    /\ UNCHANGED <<content_url, content_type, url_was_in_title, network,
                   task_result>>
    /\ UNCHANGED <<soloVars, pairVars, cliVars>>

\* await notion_client.update_url_field(page_id, content_url): it returns
\* whether or not one of its requests was accepted
UpdateUrlField ==
    /\ tpc = "url_field"
    /\ \E ok \in BOOLEAN :
         /\ notion' = Append(notion, UrlRequest(ok))
         /\ page' = [page EXCEPT !.url = ok]
    /\ tpc' = "returned"
    /\ UNCHANGED <<content_url, content_type, url_was_in_title, network,
                   task_result, exc, batches>>
    /\ UNCHANGED <<soloVars, pairVars, cliVars>>

\* the Error write raised and nothing catches it
ErrorWriteEscapes == tpc' = "raised"

\* except Exception as update_error: logger.error(...)
ErrorWriteFailed == tpc' = "returned"

\* the handler: update_page_status(page_id, "Error", error_message=str(e))
SetError ==
    /\ tpc = "except"
    /\ \E ok \in BOOLEAN :
         /\ notion' = Append(notion, StatusRequest("Error", exc, ok))
         /\ IF ok
            THEN /\ page' = [page EXCEPT !.status = "Error",
                                         !.error_log =
                                            IF exc.len > 0 THEN ErrorLogOf(exc)
                                            ELSE @]
                 /\ tpc' = "returned"
            ELSE /\ ErrorWriteFailed
                 /\ UNCHANGED page
    /\ UNCHANGED <<content_url, content_type, url_was_in_title, network,
                   task_result, exc, batches>>
    /\ UNCHANGED <<soloVars, pairVars, cliVars>>

NextTask ==
    \/ AddTask
    \/ SetProcessing
    \/ ProcessContent
    \/ SetCompleted
    \/ AppendBlocks
    \/ UpdateUrlField
    \/ SetError

InitTask == Init /\ url = UrlPlain

SpecTask == InitTask /\ [][NextTask]_vars

(***************************************************************************)
(* transcribe.py: the command-line script                                  *)
(***************************************************************************)

\* choices of --format
Formats == {"text", "json", "verbose_json", "srt", "vtt"}

\* except Exception as e: print(...); sys.exit(1)
Exit(call) ==
    /\ raised' = call
    /\ exit_code' = 1
    /\ cpc' = "exited"

\* args = parser.parse_args(), with the environment the script runs in
ParseArgs ==
    /\ cpc = "idle"
    /\ cpc' = "download"
    /\ args' \in [keep_audio : BOOLEAN, format : Formats]
    /\ env' \in BOOLEAN
    /\ UNCHANGED <<audio_file, output_file, raised, exit_code>>
    /\ UNCHANGED <<soloVars, pairVars, taskVars>>

\* audio_file, info = download_podcast_audio(args.url)
DownloadPodcastAudio ==
    /\ cpc = "download"
    /\ \/ /\ audio_file' = TRUE
          /\ cpc' = "transcribe"
          /\ UNCHANGED <<raised, exit_code>>
       \/ /\ Exit("download_podcast_audio")
          /\ UNCHANGED audio_file
    /\ UNCHANGED <<args, env, output_file>>
    /\ UNCHANGED <<soloVars, pairVars, taskVars>>

\* transcribe_audio up to the answer of client.audio.transcriptions.create
CreateTranscription ==
    /\ cpc = "transcribe"
    /\ IF ~env
       THEN Exit("transcribe_audio: api key")
       ELSE \/ /\ cpc' = "write"
               /\ UNCHANGED <<raised, exit_code>>
            \/ Exit("transcribe_audio: create")
    /\ UNCHANGED <<args, env, audio_file, output_file>>
    /\ UNCHANGED <<soloVars, pairVars, taskVars>>

\* transcribe_audio: with open(output_file, "w") as f: f.write(...)
WriteOutput ==
    /\ cpc = "write"
    /\ \/ /\ output_file' = TRUE
          /\ cpc' = "remove"
          /\ UNCHANGED <<raised, exit_code>>
       \/ /\ Exit("transcribe_audio: write")
          /\ UNCHANGED output_file
    /\ UNCHANGED <<args, env, audio_file>>
    /\ UNCHANGED <<soloVars, pairVars, taskVars>>

\* if not args.keep_audio: os.remove(audio_file); then main returns
RemoveAudio ==
    /\ cpc = "remove"
    /\ audio_file' = IF args.keep_audio THEN audio_file ELSE FALSE
    /\ cpc' = "exited"
    /\ exit_code' = 0
    /\ UNCHANGED <<args, env, output_file, raised>>
    /\ UNCHANGED <<soloVars, pairVars, taskVars>>

NextCli ==
    \/ ParseArgs
    \/ DownloadPodcastAudio
    \/ CreateTranscription
    \/ WriteOutput
    \/ RemoveAudio

InitCli == Init /\ url = UrlPlain

SpecCli == InitCli /\ [][NextCli]_vars

(***************************************************************************)
(* Vocabulary of the properties                                            *)
(***************************************************************************)

Range(q) == {q[k] : k \in 1..Len(q)}

\* split_audio_file has returned its list to transcribe_with_chunking
SplitReturned ==
    \/ pc \in {"transcribe_chunks", "await_chunk"}
    \/ pc = "done" /\ temp_dir = "removed"

\* get_podcast_transcript has returned a transcript made on the chunked path
ChunkedDone == pc = "done" /\ temp_dir = "removed"

\* the items of the fetched feed that have audio and match by guid
GuidItems ==
    {k \in 1..Len(feed.items) :
        HasAudio(feed.items[k]) /\ GuidMatches(feed.items[k], episode_id)}

\* the items of the fetched feed that have audio and match by title slug
SlugItems ==
    {k \in 1..Len(feed.items) :
        /\ HasAudio(feed.items[k])
        /\ ItemTitle(feed.items[k]) # None
        /\ Truthy(EpisodeSlugOf(url))
        /\ SlugMatches(ItemTitle(feed.items[k]), EpisodeSlugOf(url))}

\* episode_info is item k of the fetched feed
IsItem(k) ==
    /\ episode_info.title = ItemTitle(feed.items[k])
    /\ episode_info.audio_url = feed.items[k].enclosure

IsDigits(s) == Len(s) > 0 /\ \A k \in 1..Len(s) : s[k] \in Range(DigitChars)

\* the path segments of u of the form id<digits>
PodcastIdSegments(u) ==
    {p \in Range(Split(UrlPath(u), "/")) :
        StartsWith(p, IdPrefix) /\ IsDigits(DropFirst(p, 2))}

\* t is the texts of parts, in order, with exactly one space between two
RECURSIVE IsSpaceJoined(_, _)
IsSpaceJoined(t, parts) ==
    IF Len(parts) = 0 THEN t = <<>>
    ELSE IF Len(parts) = 1 THEN t = parts[1]
    ELSE /\ StartsWith(t, parts[1] \o <<" ">>)
         /\ IsSpaceJoined(DropFirst(t, Len(parts[1]) + 1), Tail(parts))

\* the elements of a set of integers in ascending order
RECURSIVE Ascending(_)
Ascending(S) ==
    IF S = {} THEN <<>>
    ELSE LET m == CHOOSE x \in S : \A y \in S : x <= y
         IN  <<m>> \o Ascending(S \ {m})

\* the ordinals whose cut left a file with content
WrittenOrdinals ==
    {cuts[k].ordinal : k \in {j \in 1..Len(cuts) : cuts[j].outcome = "written"}}

(***************************************************************************)
(* Properties                                                              *)
(***************************************************************************)

\* C1: with an episode id, when the feed holds an item with audio whose guid
\* contains the episode id and another item with audio whose title slug
\* matches the URL slug, the item selected is a guid-matching one, whatever
\* the order of the two in the feed.
C1_GuidMatchWins ==
    (/\ pc = "download"
     /\ Truthy(episode_id)
     /\ \E g \in GuidItems : \E m \in SlugItems : g # m)
    => \E g \in GuidItems : IsItem(g)

\* C2: for a URL whose path has a podcast-id segment (id followed by the
\* digits of the id), the directory lookup is made for exactly that id.
C2_LookupUsesPodcastIdSegment ==
    \A p \in PodcastIdSegments(url) :
        "lookup" \in Range(calls) => podcast_id = DropFirst(p, 2)

\* C3: on the chunked path the transcript returned is the texts of the
\* chunks joined by exactly one space in ascending ordinal order, whatever
\* the latencies of the transcription calls were.
C3_TranscriptInOrdinalOrder ==
    ChunkedDone =>
        /\ result.status = "ok"
        /\ IsSpaceJoined(result.transcript,
              [k \in 1..Cardinality(WrittenOrdinals) |->
                  ChunkText(Ascending(WrittenOrdinals)[k])])

\* C3 witness: a transcript of three chunks or more was returned after a
\* later call had answered faster than the call before it.
C3_Witness == ChunkedDone /\ Len(chunk_paths) >= 3 /\ overtaken

\* C4: when a transcription call fails, for the whole asset or for a chunk,
\* the invocation fails with that error, no transcript reaches the caller
\* (the texts collected so far are lost) and no later call is made.
C4_TranscriptionFailureAborts ==
    \A k \in 1..Len(sent) :
        sent[k].outcome = "failed" =>
            /\ k = Len(sent)
            /\ inflight = {}
            /\ pc = "failed"
            /\ result = Failure("TranscriptionError")

\* C4 witness: the call for the third chunk failed after two texts had been
\* collected, with a further chunk still to transcribe.
C4_Witness ==
    /\ Len(sent) = 3
    /\ sent[3].outcome = "failed"
    /\ Len(transcripts) = 2
    /\ Len(chunk_paths) > 3

\* C5 (as claimed): a transcript returned on the chunked path contains the
\* text of every ordinal in [0, num_chunks).
C5_NoSegmentMissing ==
    ChunkedDone =>
        \A o \in 0..(num_chunks - 1) :
            Contains(result.transcript, ChunkText(o))

\* C5 (amended): a transcript returned on the chunked path was made after
\* all num_chunks cuts were run and contains the text of every ordinal whose
\* cut left a file with content; the ordinals whose output was missing or
\* empty are absent from it.
C5_MaterializedSegmentsPresent ==
    ChunkedDone =>
        /\ Len(cuts) = num_chunks
        /\ \A k \in 1..Len(cuts) :
              (cuts[k].outcome = "written")
                  <=> Contains(result.transcript, ChunkText(cuts[k].ordinal))

\* C5 witness: a transcript was returned although a cut left no content.
C5_Witness ==
    /\ ChunkedDone
    /\ \E j, k \in 1..Len(cuts) :
          cuts[j].outcome = "empty" /\ cuts[k].outcome = "written"

\* C6 (as claimed): a cut on which the transcoder reports failure does not
\* abort the invocation.
C6_TranscodeFailureTolerated ==
    (\E k \in 1..Len(cuts) : cuts[k].outcome = "failed") => pc # "failed"

\* C6 (amended): a cut on which the transcoder reports failure aborts the
\* invocation with the transcoder's error: it is the last cut and nothing is
\* transcribed. The invocation fails with that error for no other reason: a
\* cut whose output is missing or empty is dropped and the loop goes on.
C6_TranscoderFailureAborts ==
    /\ \A k \in 1..Len(cuts) :
          cuts[k].outcome = "failed" =>
              /\ k = Len(cuts)
              /\ sent = <<>>
              /\ pc = "failed"
              /\ result = Failure("TranscodeError")
    /\ result.error = "TranscodeError" =>
          Len(cuts) > 0 /\ cuts[Len(cuts)].outcome = "failed"
    /\ (pc = "cut" /\ Len(cuts) > 0 /\ cuts[Len(cuts)].outcome = "empty") =>
          i = Len(cuts) /\ result = Pending

\* C6 witness: the first cut left no content and was dropped, the second
\* was run and failed.
C6_Witness ==
    /\ Len(cuts) = 2
    /\ cuts[1].outcome = "empty"
    /\ cuts[2].outcome = "failed"

\* C7 (as claimed): the ordinals split_audio_file returns are 0..n-1.
C7_OrdinalsContiguous ==
    SplitReturned => \A k \in 1..Len(chunk_paths) : chunk_paths[k] = k - 1

\* C7 (amended): the ordinals split_audio_file returns are strictly
\* ascending, without duplicates, and lie in 0..num_chunks-1; they are the
\* range 0..n-1 when no cut was dropped.
C7_OrdinalsAscendingInRange ==
    /\ \A j, k \in 1..Len(chunk_paths) :
          j < k => chunk_paths[j] < chunk_paths[k]
    /\ \A k \in 1..Len(chunk_paths) :
          chunk_paths[k] \in 0..(num_chunks - 1)
    /\ (\A k \in 1..Len(cuts) : cuts[k].outcome = "written") =>
          /\ Len(chunk_paths) = Len(cuts)
          /\ \A k \in 1..Len(chunk_paths) : chunk_paths[k] = k - 1

\* C7 witness: of the three cuts of a 1500 s asset the middle one was
\* dropped, and split_audio_file returned ordinals 0 and 2.
C7_Witness ==
    /\ pc = "transcribe_chunks"
    /\ duration = 1500
    /\ chunk_paths = <<0, 2>>

\* C8: split_audio_file runs floor(duration / chunk_duration) + 1 cuts, cut
\* k (from 0) under ordinal k from k * chunk_duration on; a 62-minute asset
\* gets 7 cuts, the last one starting 2 minutes before the end.
C8_CutCount ==
    /\ Len(cuts) <= (duration \div CHUNK_DURATION_SECONDS) + 1
    /\ \A k \in 1..Len(cuts) :
          /\ cuts[k].ordinal = k - 1
          /\ cuts[k].start = (k - 1) * CHUNK_DURATION_SECONDS
    /\ SplitReturned =>
          Len(cuts) = (duration \div CHUNK_DURATION_SECONDS) + 1
    /\ (SplitReturned /\ duration = 62 * 60) =>
          /\ Len(cuts) = 7
          /\ cuts[7].start = duration - 2 * 60

\* C8 witness: the seven cuts of a 62-minute asset were run.
C8_Witness ==
    /\ pc = "transcribe_chunks"
    /\ duration = 62 * 60
    /\ Len(cuts) = 7

\* C9: the chunked path is taken only for more than 24 MiB; an asset of
\* exactly 24 MiB is sent in one transcription call, without probe or cut.
C9_CeilingExclusive ==
    /\ (pc = "save_input" \/ temp_dir # "none"
        \/ "probe" \in Range(calls) \/ "cut" \in Range(calls))
          => size > 24 * 1024 * 1024
    /\ (size = 24 * 1024 * 1024 /\ pc \in {"done", "failed"}) =>
          /\ Len(sent) = 1
          /\ sent[1].ordinal = -1
          /\ "probe" \notin Range(calls)
          /\ "cut" \notin Range(calls)

\* C9 witness: an asset of exactly 24 MiB was transcribed in one call.
C9_Witness ==
    /\ size = 24 * 1024 * 1024
    /\ pc = "done"
    /\ result.status = "ok"

\* C10: when the fetched feed has a channel and no item, the invocation
\* fails with the empty-feed error without any audio download, probe, cut
\* or transcription call.
C10_EmptyFeedFailsBeforeAudio ==
    (/\ feed.xml = "ok"
     /\ feed.channel
     /\ Len(feed.items) = 0
     /\ pc # "parse_feed")
    => /\ pc = "failed"
       /\ result = Failure("EmptyFeed")
       /\ Range(calls) = {"lookup", "feed"}
       /\ sent = <<>>

\* C10 witness: the invocation ended on a feed with a channel and no item.
C10_Witness ==
    /\ pc = "failed"
    /\ feed.xml = "ok"
    /\ feed.channel
    /\ Len(feed.items) = 0

\* an audio reference that can be fetched: an enclosure element is there and
\* its url attribute is a non-empty string
PlayableAudio(a) == a \notin {Absent, None, <<>>}

\* C11: the item parse_rss_for_episode selects always has a non-empty
\* enclosure url: it is an item of the feed whose enclosure url is a
\* non-empty string, never an item without one, even when the guid or the
\* title of such an item matches; and on a feed with items of which none has
\* a non-empty enclosure url the call fails with the no-matching-episode
\* error.
C11_SelectedItemHasAudio ==
    /\ pc = "download"
       => /\ PlayableAudio(episode_info.audio_url)
          /\ \E k \in 1..Len(feed.items) :
                PlayableAudio(feed.items[k].enclosure) /\ IsItem(k)
    /\ (/\ feed.xml = "ok"
        /\ feed.channel
        /\ Len(feed.items) > 0
        /\ \A k \in 1..Len(feed.items) : ~PlayableAudio(feed.items[k].enclosure)
        /\ pc # "parse_feed")
       => pc = "failed" /\ result = Failure("NoMatchingEpisode")

\* C11 witness: an episode was selected from a feed whose first item matches
\* the episode id by guid but has no audio.
C11_Witness ==
    /\ pc = "download"
    /\ Truthy(episode_id)
    /\ Len(feed.items) = 2
    /\ ~PlayableAudio(feed.items[1].enclosure)
    /\ feed.items[1].guid # Absent
    /\ Contains(feed.items[1].guid, episode_id)
    /\ IsItem(2)

\* C11 witness of the failure: the call ended on a feed of two items, none
\* of which has audio.
C11_WitnessNoAudio ==
    /\ pc = "failed"
    /\ result = Failure("NoMatchingEpisode")
    /\ Len(feed.items) = 2
    /\ \A k \in 1..2 : ~PlayableAudio(feed.items[k].enclosure)

\* the item has a title: a title element with text
HasTitle(item) == item.title \notin {Absent, None, <<>>}

\* the items of the fetched feed that have a non-empty enclosure url
AudioItems == {k \in 1..Len(feed.items) : PlayableAudio(feed.items[k].enclosure)}

\* the items of the fetched feed that have a title and a non-empty enclosure url
TitledAudioItems == {k \in AudioItems : HasTitle(feed.items[k])}

\* C12 as stated: when no item matches by guid or by slug, the item returned
\* is the first item in feed order that has both a title and an audio
\* reference, so an item with audio and no title is never the fallback.
C12_FallbackHasTitle ==
    (pc = "download" /\ GuidItems = {} /\ SlugItems = {})
    => \E k \in TitledAudioItems :
          IsItem(k) /\ \A j \in TitledAudioItems : k <= j

\* C12: when no item with audio matches by guid or by slug and the call
\* returns, the item returned is the first item in feed order that has an
\* audio reference, with or without a title (an item without a title element
\* is returned under the title "Unknown Episode"); and when the URL yields a
\* slug and one of the items with audio has an empty title element, the call
\* does not return: it fails with an AttributeError.
C12_FallbackIsFirstAudioItem ==
    /\ (pc = "download" /\ GuidItems = {} /\ SlugItems = {})
       => \E k \in AudioItems : IsItem(k) /\ \A j \in AudioItems : k <= j
    /\ (/\ feed.xml = "ok"
        /\ pc # "parse_feed"
        /\ GuidItems = {}
        /\ SlugItems = {}
        /\ Truthy(EpisodeSlugOf(url))
        /\ \E k \in AudioItems : feed.items[k].title = None)
       => pc = "failed" /\ result = Failure("AttributeError")

\* C12 witness: nothing matched and the fallback returned is a first item
\* without a title element, ahead of an item that has a title and audio.
C12_Witness ==
    /\ pc = "download"
    /\ GuidItems = {}
    /\ SlugItems = {}
    /\ Len(feed.items) = 2
    /\ AudioItems = {1, 2}
    /\ feed.items[1].title = Absent
    /\ HasTitle(feed.items[2])
    /\ IsItem(1)
    /\ episode_info.title = UnknownEpisode

\* C13: when the directory lookup answers with no result the invocation
\* fails with the podcast-not-found error, and when its first result has no
\* feed address (none, or an empty one) it fails with the no-feed-url error;
\* in both cases the lookup is the only external call made: no feed fetch,
\* no audio download, no transcription call.
C13_LookupRejections ==
    /\ (data.fetched /\ Len(data.results) = 0)
       => /\ pc = "failed"
          /\ result = Failure("PodcastNotFound")
          /\ calls = <<"lookup">>
          /\ sent = <<>>
    /\ (/\ data.fetched
        /\ Len(data.results) > 0
        /\ data.results[1].feedUrl \in {Absent, None, <<>>})
       => /\ pc = "failed"
          /\ result = Failure("NoFeedUrl")
          /\ calls = <<"lookup">>
          /\ sent = <<>>

\* C13 witness: the lookup answered with a first result that has a
\* collection name and no feed address, and the invocation has ended.
C13_Witness ==
    /\ pc = "failed"
    /\ data.fetched
    /\ Len(data.results) > 0
    /\ data.results[1].feedUrl = None
    /\ data.results[1].collectionName = ShowName

\* C13 witness of the other case: the lookup answered with no result.
C13_WitnessNotFound ==
    /\ pc = "failed"
    /\ data.fetched
    /\ Len(data.results) = 0

\* C14: for a URL none of whose path segments is a podcast-id segment (id
\* followed by the digits of the id), the invocation fails with the
\* invalid-URL error before any network call: no directory lookup, no feed
\* fetch, no audio download and no transcription call is made.
C14_NoPodcastIdFailsBeforeNetwork ==
    (PodcastIdSegments(url) = {} /\ pc # "start")
    => /\ pc = "failed"
       /\ result = Failure("InvalidUrl")
       /\ calls = <<>>
       /\ sent = <<>>

\* the external call after which an error of each kind is raised; "none" for
\* the error raised before any call
StageOfError(e) ==
    CASE e = "InvalidUrl" -> "none"
      [] e \in {"LookupError", "PodcastNotFound", "NoFeedUrl"} -> "lookup"
      [] e \in {"FeedError", "ParseError", "InvalidFeed", "EmptyFeed",
                "NoMatchingEpisode", "AttributeError"} -> "feed"
      [] e = "DownloadError" -> "download"
      [] e = "ProbeError" -> "probe"
      [] e = "TranscodeError" -> "cut"
      [] e = "TranscriptionError" -> "transcribe"
      [] OTHER -> "unknown"

\* the external calls were made in the order of the stages: lookup, feed
\* fetch, download, then either one transcription of the whole asset or the
\* probe, the cuts and the transcriptions of the chunks
CallsInStageOrder ==
    \A k \in 1..Len(calls) :
        CASE calls[k] = "lookup" -> k = 1
          [] calls[k] = "feed" -> k = 2 /\ calls[1] = "lookup"
          [] calls[k] = "download" ->
                k = 3 /\ calls[2] = "feed" /\ episode_info # NoEpisode
          [] calls[k] = "probe" -> k = 4 /\ calls[3] = "download"
          [] calls[k] = "cut" -> k > 4 /\ calls[k - 1] \in {"probe", "cut"}
          [] calls[k] = "transcribe" ->
                \/ k = 4 /\ calls[3] = "download" /\ Len(calls) = 4
                \/ k > 5 /\ calls[k - 1] \in {"cut", "transcribe"}
          [] OTHER -> FALSE

\* a failed call is the last call made, and the error of its stage is what
\* the caller has received
FailureIsLastCall ==
    /\ pc = "failed"
       => /\ result.status = "error"
          /\ IF StageOfError(result.error) = "none" THEN calls = <<>>
             ELSE /\ Len(calls) > 0
                  /\ calls[Len(calls)] = StageOfError(result.error)
    /\ \A k \in 1..Len(cuts) :
          cuts[k].outcome = "failed"
          => /\ k = Len(cuts)
             /\ calls[Len(calls)] = "cut"
             /\ pc = "failed"
             /\ result.error = "TranscodeError"
    /\ \A k \in 1..Len(sent) :
          sent[k].outcome = "failed"
          => /\ k = Len(sent)
             /\ calls[Len(calls)] = "transcribe"
             /\ pc = "failed"
             /\ result.error = "TranscriptionError"
    /\ result.status = "ok" => pc = "done"

\* C15: within one invocation the stages begin only in the order lookup,
\* feed fetch, episode selection, download, (probe, cuts), transcription,
\* each after the one before it has succeeded; a failed stage is the last
\* one that ran: after it no external call is made, and its error is what
\* the caller receives and keeps.
C15_StagesInOrder ==
    /\ [](CallsInStageOrder /\ FailureIsLastCall)
    /\ [][pc = "failed"
          => pc' = "failed" /\ calls' = calls /\ result' = result]_vars

\* C15 witness: the second cut failed after the lookup, the feed fetch, the
\* download, the probe and a first cut had succeeded.
C15_Witness ==
    /\ pc = "failed"
    /\ result.error = "TranscodeError"
    /\ calls = <<"lookup", "feed", "download", "probe", "cut", "cut">>

\* C15 witness of a run without failure on the chunked path.
C15_WitnessDone ==
    /\ pc = "done"
    /\ Len(calls) = 8
    /\ calls[8] = "transcribe"
    /\ calls[7] = "transcribe"

\* how many times x occurs in the sequence q
Count(q, x) == Cardinality({k \in 1..Len(q) : q[k] = x})

\* no two entries of the log q are for the same ordinal
OrdinalsDistinct(q) ==
    \A j, k \in 1..Len(q) : j # k => q[j].ordinal # q[k].ordinal

\* C16: nothing is retried within one invocation: the directory lookup, the
\* feed fetch, the audio download and the duration probe are each called at
\* most once, the transcoder is run at most once per ordinal and the
\* transcription API is called at most once per segment (once at most in all
\* for an asset sent whole), whether the calls succeed or fail.
C16_NoRetries ==
    /\ \A c \in {"lookup", "feed", "download", "probe"} : Count(calls, c) <= 1
    /\ Count(calls, "cut") = Len(cuts)
    /\ OrdinalsDistinct(cuts)
    /\ Count(calls, "transcribe") = Len(sent)
    /\ OrdinalsDistinct(sent)

\* C16 witness: the transcription call of the second segment failed after
\* the first succeeded, and the invocation ended with two calls made.
C16_Witness ==
    /\ pc = "failed"
    /\ Len(sent) = 2
    /\ sent[1].outcome = "ok"
    /\ sent[2].outcome = "failed"
    /\ Count(calls, "transcribe") = 2

\* control is inside the with block of transcribe_with_chunking
InChunking == pc \in {"probe", "cut", "transcribe_chunks", "await_chunk"}

\* C17: the files of the segmentation path (the saved input and the chunks)
\* exist only inside the temporary directory the invocation has created, and
\* that directory exists exactly while transcribe_with_chunking runs: once
\* it has exited, by returning (with or without dropped segments) or by a
\* failure of the probe, of a cut or of a transcription call, the directory
\* and its files are gone.
C17_TempDirScoped ==
    /\ disk # {} => temp_dir = "live"
    /\ temp_dir = "live" <=> InChunking
    /\ pc \in {"done", "failed"} => temp_dir \in {"none", "removed"} /\ disk = {}
    /\ ("probe" \in Range(calls) /\ ~InChunking) => temp_dir = "removed"
    /\ temp_dir = "none" => "probe" \notin Range(calls)

\* C17 witness: a cut failed after the input and a first chunk had been
\* written, and the directory has been removed.
C17_Witness ==
    /\ pc = "failed"
    /\ result.error = "TranscodeError"
    /\ Len(cuts) = 2
    /\ cuts[1].outcome = "written"
    /\ temp_dir = "removed"
    /\ disk = {}

\* C17 witness of the exit by a failed probe.
C17_WitnessProbe ==
    pc = "failed" /\ result.error = "ProbeError" /\ temp_dir = "removed"

\* C17 witness of the exit by a failed transcription call.
C17_WitnessTranscription ==
    /\ pc = "failed"
    /\ result.error = "TranscriptionError"
    /\ Len(chunk_paths) > 0
    /\ temp_dir = "removed"

\* C17 witness of the normal exit after a dropped segment.
C17_WitnessDropped ==
    /\ pc = "done"
    /\ temp_dir = "removed"
    /\ \E k \in 1..Len(cuts) : cuts[k].outcome = "empty"
    /\ Len(chunk_paths) > 0

\* C19: on the multi-segment path the transcription API is called once for
\* every segment split_audio_file returned and for nothing else, in strictly
\* ascending order of ordinal, and never while an earlier call has not yet
\* returned: at most one call is in flight at any time.
C19_SequentialChunkCalls ==
    /\ Cardinality(inflight) <= 1
    /\ inflight # {} <=> pc = "await_chunk"
    /\ \A k \in 1..Len(sent) :
          sent[k].outcome = "pending"
          => k = Len(sent) /\ inflight = {sent[k].ordinal}
    /\ temp_dir # "none"
       => /\ Len(sent) <= Len(chunk_paths)
          /\ \A k \in 1..Len(sent) : sent[k].ordinal = chunk_paths[k]
          /\ \A j, k \in 1..Len(sent) :
                j < k => sent[j].ordinal < sent[k].ordinal
    /\ ChunkedDone
       => /\ Len(sent) = Len(chunk_paths)
          /\ \A k \in 1..Len(sent) : sent[k].outcome = "ok"

\* C19 witness: the call for the third of three returned segments is in
\* flight after the calls of the first two have returned.
C19_Witness ==
    /\ pc = "await_chunk"
    /\ Len(chunk_paths) = 3
    /\ Len(sent) = 3
    /\ sent[1].outcome = "ok"
    /\ sent[2].outcome = "ok"
    /\ sent[3].outcome = "pending"

\* C19 witness of a completed run over segments with a gap in the ordinals.
C19_WitnessDone ==
    /\ ChunkedDone
    /\ Len(sent) = 2
    /\ sent[2].ordinal > sent[1].ordinal + 1

\* the collection name of the first result of the directory lookup, "Unknown
\* Podcast" when that result has none
LookupName ==
    IF data.results[1].collectionName = Absent THEN UnknownPodcast
    ELSE data.results[1].collectionName

\* the texts a feed can hold: titles, enclosure urls and guids of its items
FeedTexts ==
    UNION {{ItemTitle(it), it.title, it.enclosure, it.guid} : it \in ItemPool}

\* C20: podcast_name of the selected episode and of the returned result is
\* the collection name the directory lookup returned for the first result
\* ("Unknown Podcast" when the lookup gave none); it is never a text of the
\* feed, while title comes from the feed.
C20_PodcastNameFromLookup ==
    /\ episode_info # NoEpisode
       => /\ episode_info.podcast_name = LookupName
          /\ episode_info.podcast_name \notin FeedTexts
          /\ episode_info.title \in FeedTexts
    /\ result.status = "ok"
       => /\ result.podcast_name = LookupName
          /\ result.podcast_name \notin FeedTexts
          /\ result.title = episode_info.title

\* C20 witness: a transcript was returned for a podcast whose lookup result
\* has a collection name, with an episode title taken from the feed.
C20_Witness ==
    /\ pc = "done"
    /\ result.status = "ok"
    /\ data.results[1].collectionName = ShowName
    /\ result.podcast_name = ShowName
    /\ result.title \in FeedTexts

\* C20 witness of the lookup result without a collection name.
C20_WitnessUnknown ==
    /\ pc = "done"
    /\ data.results[1].collectionName = Absent
    /\ result.podcast_name = UnknownPodcast

\* the result of invocation p when it runs alone and its collaborators give
\* the answers r: every file it reads holds its own audio
Alone(p, r) ==
    IF r.lookup = "error" THEN Failure("LookupError")
    ELSE IF r.feed = "error" THEN Failure("FeedError")
    ELSE IF r.size = ErrorAnswer THEN Failure("DownloadError")
    ELSE IF r.size <= MAX_CHUNK_SIZE_MB * BytesPerMb
    THEN IF r.api = <<"failed">> THEN Failure("TranscriptionError")
         ELSE TranscriptResult(EpisodeOf(p), WholeTextOf(p))
    ELSE IF r.duration = ErrorAnswer THEN Failure("ProbeError")
    ELSE IF "failed" \in Range(r.cuts) THEN Failure("TranscodeError")
    ELSE IF "failed" \in Range(r.api) THEN Failure("TranscriptionError")
    ELSE LET written == {k \in 1..Len(r.cuts) : r.cuts[k] = "written"}
             ordinals == Ascending({k - 1 : k \in written})
         IN  TranscriptResult(EpisodeOf(p),
                Join([k \in 1..Len(ordinals) |->
                        TextOf([content |-> p, ordinal |-> ordinals[k]])],
                     <<" ">>))

\* C18: when invocations of get_podcast_transcript are interleaved at their
\* awaits (lookup, feed fetch, download, each transcription call), two
\* invocations never hold the same temporary directory, every file of a
\* temporary directory was written by the invocation that holds it and every
\* audio an invocation reads back from a file is its own, and the result of
\* each invocation (title, transcript and podcast_name, or the error) is the
\* result it has when it runs alone with the same answers.
C18_InvocationsIsolated ==
    /\ \A p, q \in Invocations :
          (p # q /\ inv[p].temp_dir # NoDir) => inv[p].temp_dir # inv[q].temp_dir
    /\ \A p \in Invocations : inv[p].temp_dir # NoDir => inv[p].temp_dir \in dirs
    /\ \A f \in files :
          \E p \in Invocations : inv[p].temp_dir = f.dir /\ f.content = p
    /\ \A p \in Invocations :
          inv[p].pc = "await_chunk" => inv[p].payload.content = p
    /\ \A p \in Invocations :
          inv[p].pc \in {"done", "failed"}
          => inv[p].result = Alone(p, inv[p].resp)

\* C18 witness: two invocations wait for a chunk call at the same time, each
\* with its own directory, the first of them already past its first chunk.
C18_Witness ==
    /\ inv[1].pc = "await_chunk"
    /\ inv[2].pc = "await_chunk"
    /\ inv[1].ti = 1
    /\ inv[1].temp_dir # NoDir
    /\ inv[2].temp_dir # NoDir

\* C18 witness of the results: two invocations that were in their chunk loops
\* together have both returned a transcript of two chunks.
C18_WitnessDone ==
    /\ \A p \in {1, 2} :
          /\ inv[p].pc = "done"
          /\ Len(inv[p].transcripts) = 1
          /\ Len(inv[p].chunk_paths) = 2
    /\ inv[1].result # inv[2].result

\* the last element of a non-empty sequence
Last(q) == q[Len(q)]

\* the trailing path segment of a URL
TrailingSegment(u) == Last(Split(UrlPath(u), "/"))

\* the text after the last "." of a segment, empty when it has no "."
ExtensionOf(seg) ==
    IF FirstIndex(seg, ".") = 0 THEN <<>>
    ELSE LET k == CHOOSE j \in 1..Len(seg) :
                     seg[j] = "." /\ \A m \in (j + 1)..Len(seg) : seg[m] # "."
         IN  DropFirst(seg, k)

\* the extension the trailing path segment of u stands for: its own when it
\* is a known one, mp3 otherwise
TrailingExt(u) ==
    LET e == ExtensionOf(TrailingSegment(u))
    IN  IF e = <<"m", "4", "a">> THEN "m4a"
        ELSE IF e = <<"w", "a", "v">> THEN "wav"
        ELSE IF e = <<"o", "g", "g">> THEN "ogg"
        ELSE "mp3"

\* C21: the file extension transcribe_podcast_audio chooses is the one of
\* the trailing path segment of the audio URL (mp3 when that is not a known
\* one), whatever text the rest of the URL holds.
C21_ExtFromTrailingSegment ==
    file_ext # "none" => file_ext = TrailingExt(episode_info.audio_url)

\* the items of the fetched feed with audio that match by guid or by slug
MatchingItems == GuidItems \cup SlugItems

\* C22: the fallback is used only when no item with audio matches by guid or
\* by slug: when some item with audio matches and an item is returned, the
\* item returned is a matching one, also when an item with audio that does
\* not match comes earlier in the feed. (The only way that nothing is
\* returned on such a feed is the AttributeError of an item with audio and
\* an empty title element that comes before every matching item.)
C22_FallbackOnlyWithoutMatch ==
    /\ (pc = "download" /\ MatchingItems # {})
       => \E k \in MatchingItems : IsItem(k)
    /\ (pc = "failed" /\ feed.xml = "ok" /\ MatchingItems # {})
       => /\ result = Failure("AttributeError")
          /\ \E j \in AudioItems :
                /\ feed.items[j].title = None
                /\ \A k \in MatchingItems : j < k

\* C22 witness: the second item of the feed matches and was returned, after
\* a first item with audio that matches neither by guid nor by slug.
C22_Witness ==
    /\ pc = "download"
    /\ Len(feed.items) = 2
    /\ AudioItems = {1, 2}
    /\ MatchingItems = {2}
    /\ IsItem(2)
    /\ ~IsItem(1)

\* the instants of the range cut k asks for: from its start, its length long
CutRange(k) == cuts[k].start..(cuts[k].start + cuts[k].length - 1)

\* C23: the ranges split_audio_file asks the transcoder to cut are
\* [i*T, (i+1)*T) for the ordinals i in ascending order, T being the chunk
\* duration: each range starts where the one before it ends, so they are
\* ascending and pairwise disjoint, and once all count cuts are made they
\* cover [0, duration): every second of the source lies in exactly one range.
C23_RangesPartitionSource ==
    /\ \A k \in 1..Len(cuts) :
          /\ cuts[k].ordinal = k - 1
          /\ cuts[k].start = cuts[k].ordinal * CHUNK_DURATION_SECONDS
          /\ cuts[k].length = CHUNK_DURATION_SECONDS
    /\ \A j, k \in 1..Len(cuts) :
          j < k => cuts[j].start + cuts[j].length <= cuts[k].start
    /\ \A k \in 1..(Len(cuts) - 1) :
          cuts[k + 1].start = cuts[k].start + cuts[k].length
    /\ SplitReturned
       => /\ Len(cuts) > 0
          /\ cuts[1].start = 0
          /\ cuts[Len(cuts)].start + cuts[Len(cuts)].length > duration
          /\ \A t \in {0, duration \div 2, duration - 1} \cap (0..(duration - 1)) :
                Cardinality({k \in 1..Len(cuts) : t \in CutRange(k)}) = 1

\* C23 witness: split_audio_file has returned after the seven cuts of an
\* asset of 3720 seconds, the last one starting at 3600.
C23_Witness ==
    /\ SplitReturned
    /\ duration = 3720
    /\ Len(cuts) = 7
    /\ cuts[7].start = 3600

\* C23 witness for a duration that is a multiple of the chunk duration.
C23_WitnessExact ==
    SplitReturned /\ duration = 600 /\ Len(cuts) = 2 /\ cuts[2].start = 600

\* C24: a cut that ends without a transcoder failure and leaves no output
\* file, or an empty one, is left out and the loop goes on with the next
\* ordinal; what split_audio_file returns is exactly the ordinals whose
\* output file has content, in ascending order, and transcribe_with_chunking
\* sends exactly those to the transcription API and no other.
C24_DroppedSegmentsOmitted ==
    /\ \A k \in 1..Len(cuts) :
          cuts[k].outcome = "empty"
          => /\ cuts[k].ordinal \notin Range(chunk_paths)
             /\ cuts[k].ordinal \notin {sent[j].ordinal : j \in 1..Len(sent)}
             /\ (pc = "cut" /\ k = Len(cuts)) => i = k /\ result = Pending
    /\ SplitReturned
       => /\ Len(cuts) = num_chunks
          /\ chunk_paths = Ascending(WrittenOrdinals)
          /\ \A j \in 1..Len(sent) : sent[j].ordinal = chunk_paths[j]
    /\ ChunkedDone
       => {sent[j].ordinal : j \in 1..Len(sent)} = WrittenOrdinals

\* C24 witness: of three cuts the second left no usable file; the first and
\* the third were returned and transcribed, and the transcript was returned.
C24_Witness ==
    /\ ChunkedDone
    /\ Len(cuts) = 3
    /\ cuts[1].outcome = "written"
    /\ cuts[2].outcome = "empty"
    /\ cuts[3].outcome = "written"
    /\ chunk_paths = <<0, 2>>
    /\ Len(sent) = 2

\* requests that write the status Error
ErrorWrites ==
    {k \in 1..Len(notion) :
        notion[k].op = "status" /\ notion[k].status = "Error"}

\* requests of the try block that Notion refused; update_url_field
\* swallows its own refusals
FailedRequests ==
    {k \in 1..Len(notion) :
        /\ ~notion[k].ok
        /\ notion[k].op # "url"
        /\ k \notin ErrorWrites}

\* process_content has been started
ContentStarted ==
    \/ network # <<>>
    \/ task_result # NoResult
    \/ tpc \in {"update_page", "append", "url_field"}

\* C25: process_transcript_task never lets an exception escape. When the
\* Processing write, process_content or the page update fails, the task
\* attempts exactly one Error status write, called with the text of the
\* failure, and returns normally whether or not that write succeeds; a run
\* without a failure attempts none. process_content is started only after
\* the Processing write succeeded. (What the request stores in Error Log is
\* the first 2000 characters of the text, and nothing for an empty text.)
C25_FailuresContained ==
    /\ tpc # "raised"
    /\ FailedRequests # {} => exc # NoException /\ tpc \in {"except", "returned"}
    /\ tpc = "except" => exc # NoException /\ ErrorWrites = {}
    /\ exc = NoException => ErrorWrites = {}
    /\ tpc = "returned" /\ exc # NoException =>
          /\ ErrorWrites = {Len(notion)}
          /\ Last(notion).error_message = exc
          /\ Last(notion).error_log = ErrorLogOf(exc)
    /\ tpc = "returned" /\ ErrorWrites = {} =>
          /\ FailedRequests = {}
          /\ task_result # NoResult
          /\ page.blocks = BlocksOf(task_result)
    /\ ContentStarted =>
          notion[1] = StatusRequest("Processing", NoException, TRUE)

\* process_content failed and the Error write failed too: the task returned
C25_Witness ==
    /\ tpc = "returned"
    /\ exc \in ContentErrors
    /\ network # <<>>
    /\ Last(notion) = StatusRequest("Error", exc, FALSE)

\* the Processing write failed: one Error write, no content processing
C25_WitnessProcessing ==
    /\ tpc = "returned"
    /\ notion = <<StatusRequest("Processing", NoException, FALSE),
                  StatusRequest("Error", NotionError, TRUE)>>
    /\ page.status = "Error"
    /\ page.error_log = NotionError

\* a request of the page update failed after content processing succeeded
C25_WitnessUpdate ==
    /\ tpc = "returned"
    /\ task_result # NoResult
    /\ \E k \in FailedRequests : notion[k].op = "children"
    /\ ErrorWrites = {Len(notion)}

\* C26: a page showing the status Completed has all the blocks of its
\* transcript
C26_CompletedHasTranscript ==
    page.status = "Completed" =>
        /\ task_result # NoResult
        /\ page.blocks = BlocksOf(task_result)

\* no segment of the path of u begins with "id"
NoIdSegment(u) ==
    \A part \in Range(Split(UrlPath(u), "/")) : ~StartsWith(part, IdPrefix)

\* process_content sends u down the podcast branch for its audio-file
\* extension alone: it is no YouTube or Apple Podcasts URL and the caller did
\* not say Podcast
RoutedByExtension(u, hint) ==
    /\ RouteOf(u, hint) = "Podcast"
    /\ is_audio_url(u)
    /\ hint # "Podcast"
    /\ ~is_youtube_url(u)
    /\ ~is_apple_podcast_url(u)
    /\ ~Contains(Lower(u), PodcastsAppleCom)

\* the Processing write succeeded and process_content has returned or raised
ContentProcessed ==
    /\ tpc \notin {"idle", "start", "process"}
    /\ notion[1].ok

\* C27: a URL that reaches the podcast branch of process_content for its
\* audio-file extension alone, and whose path has no segment beginning with
\* "id", makes process_content raise the ValueError of the missing podcast id
\* before any call leaves the process: no lookup, no download and no
\* transcription call
C27_AudioUrlFailsBeforeNetwork ==
    /\ ContentProcessed
    /\ RoutedByExtension(content_url, content_type)
    /\ NoIdSegment(content_url)
    => /\ exc = NoPodcastIdText(content_url)
       /\ network = <<>>
       /\ task_result = NoResult

\* h://c/a.mp3 with the content type Article: is_audio_url sends it to the
\* podcast branch, which raises
C27_Witness ==
    /\ ContentProcessed
    /\ content_url = AudioMp3
    /\ content_type = "Article"
    /\ RoutedByExtension(content_url, content_type)
    /\ NoIdSegment(content_url)
    /\ exc.kind = "ValueError"
    /\ tpc = "returned"

\* h://c/b.m4B without a content type: detect_content_type lowers the URL
C27_WitnessDetected ==
    /\ ContentProcessed
    /\ content_url = FileUrlUpper
    /\ content_type = NoHint
    /\ RoutedByExtension(content_url, content_type)
    /\ NoIdSegment(content_url)
    /\ exc.kind = "ValueError"

\* main has exited after download_podcast_audio returned
ExitedAfterDownload == cpc = "exited" /\ raised # "download_podcast_audio"

\* C28: without --keep-audio the downloaded audio file is gone when main
\* exits after a successful download, whether transcribe_audio returned or
\* raised
C28_AudioRemovedOnExit ==
    ExitedAfterDownload /\ ~args.keep_audio => ~audio_file

====
